---- MODULE Spec2Model ----
(***************************************************************************)
(* Campaign engine of miasma: the campaign service (status table, update,  *)
(* delete), the campaign routes execute / pause / resume, and the          *)
(* CampaignExecutor (task registry, fresh run, resume run, _submit_single).*)
(* One asyncio event loop: a step of the model is the code a coroutine     *)
(* runs between two suspension points.                                     *)
(* Beside the engine: LookupService.search_person, the accuracy scorer     *)
(* AccuracyService.calculate_accuracy, the profile generator's names and   *)
(* BaseSubmitter.execute, each with a specification of its own.            *)
(***************************************************************************)
EXTENDS Integers, Sequences, FiniteSets, TLC

\* ---------------------------------------------------------------- bounds
NumCampaigns == 2
MainCampaigns == 1
MaxUnits == 3
MaxCount == 1
MaxTasks == 2
MaxPendingCalls == 1
MaxSources == 2
MaxRecords == 2

\* ------------------------------------------------------- program constants
MAX_CAMPAIGNS_PER_USER == 10
MAX_SUBMISSIONS_PER_CAMPAIGN == 100
GENERATOR_CAP == 500
ERROR_MESSAGE_MAX == 500
AGE_TOLERANCE == 1

CampaignIds == 1..NumCampaigns
TaskIds == 1..MaxTasks

CampaignStatus == {"draft", "scheduled", "running", "paused", "completed", "failed"}
SubmissionStatus == {"pending", "submitted", "confirmed", "failed", "skipped"}
TerminalStatus == {"submitted", "confirmed", "failed", "skipped"}

\* status strings a caller may send: the six statuses and an unknown one
RequestedStatuses == CampaignStatus \cup {"bogus"}

\* variant: a completed campaign may be set running again
AllowedRerun(current) ==
    CASE current = "draft"     -> {"scheduled", "running"}
      [] current = "scheduled" -> {"running", "paused", "draft"}
      [] current = "running"   -> {"paused", "completed", "failed"}
      [] current = "paused"    -> {"running", "draft"}
      [] current = "completed" -> {"draft", "running"}
      [] current = "failed"    -> {"draft"}
      [] OTHER                 -> {}

ALLOWED_TRANSITIONS(current) ==
    CASE current = "draft"     -> {"scheduled", "running"}
      [] current = "scheduled" -> {"running", "paused", "draft"}
      [] current = "running"   -> {"paused", "completed", "failed"}
      [] current = "paused"    -> {"running", "draft"}
      [] current = "completed" -> {"draft"}
      [] current = "failed"    -> {"draft"}
      [] OTHER                 -> {}

SUBMITTER_REGISTRY == {"aboutme", "gravatar", "linktree", "directory", "marketing", "manual"}

\* str.lower() on the site keys the model uses
Lower(s) == IF s = "AboutMe" THEN "aboutme" ELSE s

\* len() of the site keys the model uses
StrLen(s) == IF s \in {"AboutMe", "aboutme"} THEN 7 ELSE IF s = "nosuch" THEN 6 ELSE 0

\* variant: the registry is looked up with the key as it is stored
get_submitter_exact(site_name) == site_name \in SUBMITTER_REGISTRY

\* get_submitter: TRUE when a submitter class is registered for the key
get_submitter(site_name) == Lower(site_name) \in SUBMITTER_REGISTRY

\* Optional values are sequences of length 0 (None / not sent) or 1 (a value)
None == <<>>
Some(v) == <<v>>
IsSet(o) == Len(o) = 1

\* a text: its parts, and its length in characters
Msg(parts, len) == [text |-> parts, len |-> len]

\* text[:n]: the first n characters
Truncate(m, n) == [m EXCEPT !.len = IF @ > n THEN n ELSE @]

\* target site lists a caller may store
SiteLists == {None, Some(<<>>), Some(<<"aboutme">>), Some(<<"AboutMe", "nosuch">>)}
TargetCounts == 0..MaxCount
Names == {"n1", "n2"}

Min(a, b) == IF a < b THEN a ELSE b

VARIABLES
    campaigns,      \* store: campaign id -> row (exists = FALSE: no such row)
    nextCampaignId, \* store: next autoincrement campaign id
    submissions,    \* store: submission id -> row, in id order
    running_tasks,  \* CampaignExecutor._running_tasks: campaign id -> task id, 0 = no entry
    tasks,          \* asyncio tasks created by the executor
    calls,          \* route handlers that committed their update and have the executor call ahead
    response,       \* answer of the last service / route / executor call
    recording,      \* whether answers are kept in response (fixed by the specification)
    invoked,        \* submission ids for which a plugin execute() call was begun
    faker,          \* names the profile generator's Faker draws from (fixed by the specification)
    lookup,         \* a LookupService.search_person call
    accuracy,       \* an AccuracyService.calculate_accuracy call
    submitter       \* a BaseSubmitter.execute call

\* the services beside the campaign engine
services == <<lookup, accuracy, submitter>>

\* the campaign engine: store, executor, routes, generator
engine == <<campaigns, nextCampaignId, submissions, running_tasks, tasks, calls, response,
            recording, invoked, faker>>

vars == <<engine, services>>

NoCampaign == [exists |-> FALSE, status |-> "draft", name |-> "n1", description |-> None,
               target_first_name |-> None, target_last_name |-> None,
               target_sites |-> None, target_count |-> 0,
               submissions_completed |-> 0, submissions_failed |-> 0]

\* a task slot; session: the task is inside an `async with db_session_factory()`
\* block at the await it is suspended in
FreeTask == [pc |-> "free", cid |-> 0, kind |-> "none", subs |-> <<>>, idx |-> 0,
             cancel |-> FALSE, result |-> "none", session |-> FALSE]

NoResponse == [op |-> "none", cid |-> 0, code |-> 0, detail |-> <<>>]

\* a call answers: the HTTP code and the message (or the executor's log line)
Reply(op, c, code, detail) ==
    /\ response' = IF recording
                   THEN [op |-> op, cid |-> c, code |-> code, detail |-> detail]
                   ELSE response
    /\ UNCHANGED <<recording, faker, services>>

\* a service that has not been called
Idle == [pc |-> "idle"]

\* the Faker of a specification that does not look at profile names
PlainFaker == {[first_name |-> "Ann", last_name |-> "Lee"]}

\* a Faker that draws one of two names
FakerNames == PlainFaker \cup {[first_name |-> "Bob", last_name |-> "Ray"]}

\* an empty store, no task, nothing answered yet
Empty ==
    /\ faker = PlainFaker
    /\ lookup = Idle
    /\ accuracy = Idle
    /\ submitter = Idle
    /\ campaigns = [c \in CampaignIds |-> NoCampaign]
    /\ nextCampaignId = 1
    /\ submissions = <<>>
    /\ running_tasks = [c \in CampaignIds |-> 0]
    /\ tasks = [t \in TaskIds |-> FreeTask]
    /\ calls = <<>>
    /\ response = NoResponse
    /\ invoked = {}

Init == Empty /\ recording = FALSE


\* ------------------------------------------------------------ the store
\* a submission id whose row is gone
NoSubmission == [exists |-> FALSE, campaign_id |-> 0, site |-> "", profile |-> 0,
                 profile_data |-> None,
                 status |-> "pending", submitted_at |-> None, reference_id |-> None,
         error_message |-> None]

Exists(c) == c \in CampaignIds /\ campaigns[c].exists

SubIds == 1..Len(submissions)

\* submission ids of campaign c that are rows of the store, in id order
UnitsOf(c) == {i \in SubIds : submissions[i].exists /\ submissions[i].campaign_id = c}

\* ids of a finite set of naturals as an ascending sequence (ORDER BY id)
RECURSIVE SortedSeq(_)
SortedSeq(S) ==
    IF S = {} THEN <<>>
    ELSE LET m == CHOOSE x \in S : \A y \in S : x <= y
         IN <<m>> \o SortedSeq(S \ {m})

\* variant: a campaign without a site list runs against a default site
TargetSitesOrDefault(camp) ==
    IF IsSet(camp.target_sites) /\ camp.target_sites[1] # <<>>
    THEN camp.target_sites[1]
    ELSE <<"aboutme">>

\* `campaign.target_sites or []`
TargetSitesOrEmpty(camp) == IF IsSet(camp.target_sites) THEN camp.target_sites[1] ELSE <<>>

\* ------------------------------------------------- CampaignService.create
\* create_campaign: limit check, then a draft row with zero counters
CreateCampaign(name, sites, count) ==
    /\ nextCampaignId <= NumCampaigns
    /\ LET current_count == Cardinality({c \in CampaignIds : campaigns[c].exists})
           id == nextCampaignId
       IN IF current_count >= MAX_CAMPAIGNS_PER_USER
          THEN /\ Reply("create", 0, 400, <<"limit">>)
               /\ UNCHANGED <<campaigns, nextCampaignId>>
          ELSE /\ campaigns' = [campaigns EXCEPT ![id] =
                      [exists |-> TRUE, status |-> "draft", name |-> name,
                       description |-> None,
                       target_first_name |-> None, target_last_name |-> None,
                       target_sites |-> sites,
                       target_count |-> Min(count, MAX_SUBMISSIONS_PER_CAMPAIGN),
                       submissions_completed |-> 0, submissions_failed |-> 0]]
               /\ nextCampaignId' = id + 1
               /\ Reply("create", id, 201, <<>>)
    /\ UNCHANGED <<submissions, running_tasks, tasks, calls, invoked>>

\* ------------------------------------------------- CampaignService.update
\* an update request: every field is None (absent or null) or Some(value)
NoUpdates == [status |-> None, name |-> None, description |-> None,
              target_sites |-> None, target_count |-> None]

StatusOnly(s) == [NoUpdates EXCEPT !.status = Some(s)]

\* variant: an update of the fields starts the counters again from zero
ApplyFieldsResetsCounters(camp, updates) ==
    [camp EXCEPT
        !.name = IF IsSet(updates.name) THEN updates.name[1] ELSE @,
        !.description = IF IsSet(updates.description) THEN updates.description ELSE @,
        !.target_sites = IF IsSet(updates.target_sites) THEN updates.target_sites ELSE @,
        !.target_count = IF IsSet(updates.target_count) THEN updates.target_count[1] ELSE @,
        !.submissions_completed = 0,
        !.submissions_failed = 0]

\* the loop over ("name", "description", "target_sites", "target_count")
ApplyFields(camp, updates) ==
    [camp EXCEPT
        !.name = IF IsSet(updates.name) THEN updates.name[1] ELSE @,
        !.description = IF IsSet(updates.description) THEN updates.description ELSE @,
        !.target_sites = IF IsSet(updates.target_sites) THEN updates.target_sites ELSE @,
        !.target_count = IF IsSet(updates.target_count) THEN updates.target_count[1] ELSE @]

\* variant: the fields are written before the status is validated
UpdateFieldsFirst(camp, updates) ==
    IF ~camp.exists
    THEN [kind |-> "notfound", campaign |-> camp, error |-> <<>>]
    ELSE IF IsSet(updates.status) /\ updates.status[1] \notin ALLOWED_TRANSITIONS(camp.status)
    THEN [kind |-> "error", campaign |-> ApplyFields(camp, updates),
          error |-> <<"Cannot transition", camp.status, updates.status[1]>>]
    ELSE [kind |-> "ok",
          campaign |-> ApplyFields(
              [camp EXCEPT !.status = IF IsSet(updates.status) THEN updates.status[1] ELSE @],
              updates),
          error |-> <<>>]

\* update_campaign on a row: kind "notfound" (returns None), "error" (ValueError
\* with the message's from and to) or "ok" (committed row)
UpdateCampaign(camp, updates) ==
    IF ~camp.exists
    THEN [kind |-> "notfound", campaign |-> camp, error |-> <<>>]
    ELSE IF IsSet(updates.status) /\ updates.status[1] \notin ALLOWED_TRANSITIONS(camp.status)
    THEN [kind |-> "error", campaign |-> camp,
          error |-> <<"Cannot transition", camp.status, updates.status[1]>>]
    ELSE [kind |-> "ok",
          campaign |-> ApplyFields(
              [camp EXCEPT !.status = IF IsSet(updates.status) THEN updates.status[1] ELSE @],
              updates),
          error |-> <<>>]

\* HTTP code of a route that wraps update_campaign
CodeOf(res, okCode) ==
    IF res.kind = "ok" THEN okCode ELSE IF res.kind = "error" THEN 400 ELSE 404

\* PATCH /{campaign_id}
ApiUpdate(c, updates) ==
    /\ c < nextCampaignId
    /\ LET res == UpdateCampaign(campaigns[c], updates)
       IN /\ campaigns' = [campaigns EXCEPT ![c] = res.campaign]
          /\ Reply("update", c, CodeOf(res, 200), res.error)
    /\ UNCHANGED <<nextCampaignId, submissions, running_tasks, tasks, calls, invoked>>

\* the three routes that set a status and then call the executor: the update
\* commits in one step and answers 400 / 404 there; after a successful update
\* the executor call follows in a later step of the handler (calls)
RouteToExecutor(op, c, status) ==
    /\ c < nextCampaignId
    /\ LET res == UpdateCampaign(campaigns[c], StatusOnly(status))
       IN /\ res.kind = "ok" => Len(calls) < MaxPendingCalls
          /\ campaigns' = [campaigns EXCEPT ![c] = res.campaign]
          /\ IF res.kind = "ok" THEN UNCHANGED <<response, recording, faker, services>>
             ELSE Reply(op, c, CodeOf(res, 0), res.error)
          /\ calls' = IF res.kind = "ok" THEN Append(calls, [op |-> op, cid |-> c]) ELSE calls
    /\ UNCHANGED <<nextCampaignId, submissions, running_tasks, tasks, invoked>>

\* POST /{campaign_id}/execute
ApiExecute(c) == RouteToExecutor("execute", c, "running")

\* POST /{campaign_id}/pause
ApiPause(c) == RouteToExecutor("pause", c, "paused")

\* POST /{campaign_id}/resume
ApiResume(c) == RouteToExecutor("resume", c, "running")

\* DELETE /{campaign_id}: the row and, by cascade, its submissions
ApiDelete(c) ==
    /\ c < nextCampaignId
    /\ IF campaigns[c].exists
       THEN /\ campaigns' = [campaigns EXCEPT ![c] = NoCampaign]
            /\ submissions' = [i \in SubIds |->
                   IF submissions[i].campaign_id = c THEN NoSubmission ELSE submissions[i]]
            /\ invoked' = {i \in invoked : submissions[i].campaign_id # c}
            /\ Reply("delete", c, 200, <<>>)
       ELSE /\ Reply("delete", c, 404, <<>>)
            /\ UNCHANGED <<campaigns, submissions, invoked>>
    /\ UNCHANGED <<nextCampaignId, running_tasks, tasks, calls>>


\* ------------------------------------------------------ CampaignExecutor
FreeSlots == {t \in TaskIds : tasks[t].pc = "free"}

\* asyncio.create_task: the new task takes the lowest free slot
NewTaskId == CHOOSE t \in FreeSlots : \A u \in FreeSlots : t <= u

\* Task.done()
TaskDone(t) == tasks[t].pc = "done"

\* variant: an entry whose task has been cancelled counts as absent
InRegistryLive(c) == running_tasks[c] # 0 /\ ~tasks[running_tasks[c]].cancel

\* `campaign_id in cls._running_tasks`
InRegistry(c) == running_tasks[c] # 0

\* variant: no registry check, the new task replaces the entry
LaunchReplace(c, kind, op, okCode, okMsg) ==
    /\ FreeSlots # {}
    /\ tasks' = [tasks EXCEPT ![NewTaskId] =
           [FreeTask EXCEPT !.pc = "start", !.cid = c, !.kind = kind]]
    /\ running_tasks' = [running_tasks EXCEPT ![c] = NewTaskId]
    /\ Reply(op, c, okCode, <<okMsg>>)

\* start_campaign / resume_campaign: the registry check, create_task, the entry
Launch(c, kind, op, okCode, okMsg) ==
    IF InRegistry(c)
    THEN /\ Reply(op, c, okCode, <<"already running">>)
         /\ UNCHANGED <<tasks, running_tasks>>
    ELSE /\ FreeSlots # {}
         /\ tasks' = [tasks EXCEPT ![NewTaskId] =
                [FreeTask EXCEPT !.pc = "start", !.cid = c, !.kind = kind]]
         /\ running_tasks' = [running_tasks EXCEPT ![c] = NewTaskId]
         /\ Reply(op, c, okCode, <<okMsg>>)

\* a sequence without its i-th element
RemoveAt(seq, i) == SubSeq(seq, 1, i - 1) \o SubSeq(seq, i + 1, Len(seq))

\* execute route, second half: CampaignExecutor.start_campaign
StartCampaign(i) ==
    /\ i \in 1..Len(calls)
    /\ calls[i].op = "execute"
    /\ Launch(calls[i].cid, "fresh", "execute", 202, "started")
    /\ calls' = RemoveAt(calls, i)
    /\ UNCHANGED <<campaigns, nextCampaignId, submissions, invoked>>

\* resume route, second half: CampaignExecutor.resume_campaign
ResumeCampaign(i) ==
    /\ i \in 1..Len(calls)
    /\ calls[i].op = "resume"
    /\ Launch(calls[i].cid, "resume", "resume", 200, "resumed")
    /\ calls' = RemoveAt(calls, i)
    /\ UNCHANGED <<campaigns, nextCampaignId, submissions, invoked>>

\* pause route, second half: CampaignExecutor.pause_campaign
PauseCampaign(i) ==
    /\ i \in 1..Len(calls)
    /\ calls[i].op = "pause"
    /\ LET c == calls[i].cid
           t == running_tasks[c]
       IN IF t # 0 /\ ~TaskDone(t)
          THEN /\ tasks' = [tasks EXCEPT ![t].cancel = TRUE]
               /\ Reply("pause", c, 200, <<"paused">>)
          ELSE /\ Reply("pause", c, 200, <<"no running task">>)
               /\ UNCHANGED tasks
    /\ calls' = RemoveAt(calls, i)
    /\ UNCHANGED <<campaigns, nextCampaignId, submissions, running_tasks, invoked>>

\* get_running_campaigns
get_running_campaigns == {c \in CampaignIds : InRegistry(c)}

\* a task that is created and not finished
Active(t) == tasks[t].pc \notin {"free", "done"}

\* a step of the task's own code: the task is not finished and no cancellation is pending
Runs(t, pc) == tasks[t].pc = pc /\ ~tasks[t].cancel

\* the task ends (return, or an exception that was handled or re-raised); an
\* `async with` block it was in has closed its session on the way out
Finish(t, result) == [tasks[t] EXCEPT !.pc = "done", !.result = result, !.session = FALSE]


\* profiles the generator returns for a requested count: min(count, 500), none below 1
ProfileCount(count) == IF count < 0 THEN 0 ELSE Min(count, GENERATOR_CAP)

\* variant: one row per profile, for the first site only
NewSubmissionsFirstSite(c, count, sites) ==
    [k \in 1..ProfileCount(count) |->
        [exists |-> TRUE, campaign_id |-> c, site |-> sites[1], profile |-> k,
         profile_data |-> None,
         status |-> "pending", submitted_at |-> None, reference_id |-> None,
         error_message |-> None]]

\* the Submission rows of a fresh run: profile-major, one per (profile, site)
NewSubmissions(c, count, sites) ==
    [k \in 1..(ProfileCount(count) * Len(sites)) |->
        [exists |-> TRUE, campaign_id |-> c,
         site |-> sites[((k - 1) % Len(sites)) + 1],
         profile |-> ((k - 1) \div Len(sites)) + 1,
         profile_data |-> None,
         status |-> "pending", submitted_at |-> None, reference_id |-> None,
         error_message |-> None]]

\* a generated profile: the fields the engine's rows are compared on
Profile(first_name, last_name) == [first_name |-> first_name, last_name |-> last_name]

\* generate_profiles: the lists it can return, every name drawn by Faker
generate_profiles(count, names) == [1..ProfileCount(count) -> names]

\* variant: the profiles keep the names Faker drew
generate_poisoning_profiles_unforced(first_name, last_name, count, names) ==
    [1..ProfileCount(count) -> names]

\* generate_poisoning_profiles: the lists it can return; every profile is
\* generated from Faker and then given the target's names
generate_poisoning_profiles(first_name, last_name, count, names) ==
    {[k \in 1..ProfileCount(count) |-> Profile(first_name, last_name)] :
        drawn \in [1..ProfileCount(count) -> names]}

\* the profile lists the generator can return for a campaign
GeneratedProfiles(camp, names) ==
    IF /\ IsSet(camp.target_first_name) /\ camp.target_first_name[1] # ""
       /\ IsSet(camp.target_last_name) /\ camp.target_last_name[1] # ""
    THEN generate_poisoning_profiles(camp.target_first_name[1], camp.target_last_name[1],
                                     camp.target_count, names)
    ELSE generate_profiles(camp.target_count, names)

\* rows with profile_data=profile of their profile
WithProfiles(rows, profiles) ==
    [k \in 1..Len(rows) |-> [rows[k] EXCEPT !.profile_data = Some(profiles[rows[k].profile])]]

\* _execute_campaign, first session: the campaign, its sites, the rows, the commit
ExecuteSetup(t) ==
    /\ Runs(t, "start")
    /\ tasks[t].kind = "fresh"
    /\ \E profiles \in GeneratedProfiles(campaigns[tasks[t].cid], faker) :
       LET c == tasks[t].cid
           camp == campaigns[c]
           target_sites == TargetSitesOrEmpty(camp)
           rows == WithProfiles(NewSubmissions(c, camp.target_count, target_sites), profiles)
           first == Len(submissions) + 1
       IN IF ~camp.exists
          THEN /\ tasks' = [tasks EXCEPT ![t] = Finish(t, "returned")]
               /\ UNCHANGED <<campaigns, submissions, invoked>>
          ELSE IF target_sites = <<>>
          THEN /\ campaigns' = [campaigns EXCEPT ![c].status = "failed"]
               /\ tasks' = [tasks EXCEPT ![t] = Finish(t, "returned")]
               /\ UNCHANGED <<submissions, invoked>>
          ELSE /\ Len(submissions) + Len(rows) <= MaxUnits
               /\ submissions' = submissions \o rows
               /\ UNCHANGED invoked
               /\ tasks' = [tasks EXCEPT ![t] =
                      [@ EXCEPT !.pc = IF Len(rows) = 0 THEN "empty" ELSE "check",
                                !.subs = [k \in 1..Len(rows) |-> first + k - 1],
                                !.idx = 1]]
               /\ UNCHANGED campaigns
    /\ UNCHANGED <<nextCampaignId, running_tasks, calls, response, recording, faker, services>>

\* _execute_campaign, total == 0: a new session writes COMPLETED
ExecuteEmpty(t) ==
    /\ Runs(t, "empty")
    /\ LET c == tasks[t].cid
       IN IF campaigns[c].exists
          THEN /\ campaigns' = [campaigns EXCEPT ![c].status = "completed"]
               /\ tasks' = [tasks EXCEPT ![t] = Finish(t, "returned")]
          ELSE /\ tasks' = [tasks EXCEPT ![t].pc = "failing"]
               /\ UNCHANGED campaigns
    /\ UNCHANGED <<nextCampaignId, submissions, running_tasks, calls, response, recording, faker, services, invoked>>

\* variant: the query misses the campaign filter
PendingAnyCampaign(c) ==
    SortedSeq({i \in SubIds : submissions[i].exists /\ submissions[i].status = "pending"})

\* variant: the pending rows are taken newest first
PendingNewestFirst(c) ==
    LET s == SortedSeq({i \in UnitsOf(c) : submissions[i].status = "pending"})
    IN [k \in 1..Len(s) |-> s[Len(s) + 1 - k]]

\* ids of the campaign's PENDING rows, ORDER BY id
PendingOf(c) == SortedSeq({i \in UnitsOf(c) : submissions[i].status = "pending"})

\* _resume_campaign, first session: the query for PENDING rows
ResumeQuery(t) ==
    /\ Runs(t, "start")
    /\ tasks[t].kind = "resume"
    /\ LET pending == PendingOf(tasks[t].cid)
       IN tasks' = [tasks EXCEPT ![t] =
              [@ EXCEPT !.pc = IF pending = <<>> THEN "nopending" ELSE "check",
                        !.subs = pending,
                        !.idx = IF pending = <<>> THEN 0 ELSE 1]]
    /\ UNCHANGED <<campaigns, nextCampaignId, submissions, running_tasks, calls, response, recording, faker, services, invoked>>

\* variant: the run returns without writing a status
ResumeNoPendingSilent(t) ==
    /\ Runs(t, "nopending")
    /\ tasks' = [tasks EXCEPT ![t] = Finish(t, "returned")]
    /\ UNCHANGED <<campaigns, nextCampaignId, submissions, running_tasks, calls, response,
                   recording, faker, services, invoked>>

\* _resume_campaign, `not pending`: a new session writes COMPLETED
ResumeNoPending(t) ==
    /\ Runs(t, "nopending")
    /\ LET c == tasks[t].cid
       IN IF campaigns[c].exists
          THEN /\ campaigns' = [campaigns EXCEPT ![c].status = "completed"]
               /\ tasks' = [tasks EXCEPT ![t] = Finish(t, "returned")]
          ELSE /\ tasks' = [tasks EXCEPT ![t].pc = "failing"]
               /\ UNCHANGED campaigns
    /\ UNCHANGED <<nextCampaignId, submissions, running_tasks, calls, response, recording, faker, services, invoked>>

\* asyncio.current_task().cancelled(): true only of a task that ended cancelled
CurrentTaskCancelled(t) == tasks[t].pc = "done" /\ tasks[t].result = "cancelled"

\* variant: the loop does not look at the stored status
CheckStatusIgnored(t) ==
    /\ Runs(t, "check")
    /\ LET c == tasks[t].cid
       IN tasks' = [tasks EXCEPT ![t] =
              IF CurrentTaskCancelled(t) THEN Finish(t, "returned")
              ELSE IF ~campaigns[c].exists THEN [@ EXCEPT !.pc = "failing"]
              ELSE [@ EXCEPT !.pc = "submit"]]
    /\ UNCHANGED <<campaigns, nextCampaignId, submissions, running_tasks, calls, response, recording, faker, services, invoked>>

\* top of the loop in both runs: the cancelled() test, then the status re-read
CheckStatus(t) ==
    /\ Runs(t, "check")
    /\ LET c == tasks[t].cid
       IN tasks' = [tasks EXCEPT ![t] =
              IF CurrentTaskCancelled(t) THEN Finish(t, "returned")
              ELSE IF ~campaigns[c].exists THEN [@ EXCEPT !.pc = "failing"]
              ELSE IF campaigns[c].status # "running" THEN Finish(t, "returned")
              ELSE [@ EXCEPT !.pc = "submit"]]
    /\ UNCHANGED <<campaigns, nextCampaignId, submissions, running_tasks, calls, response, recording, faker, services, invoked>>

\* the unit the task is at
CurrentSub(t) == tasks[t].subs[tasks[t].idx]

\* variant: a success is also counted as a failure (a missing else)
CountBoth(camps, c, outcome) ==
    IF ~camps[c].exists THEN camps
    ELSE IF outcome = "completed"
    THEN [camps EXCEPT ![c].submissions_completed = @ + 1, ![c].submissions_failed = @ + 1]
    ELSE [camps EXCEPT ![c].submissions_failed = @ + 1]

\* variant: only successes are counted
CountCompletedOnly(camps, c, outcome) ==
    IF ~camps[c].exists THEN camps
    ELSE IF outcome = "completed"
    THEN [camps EXCEPT ![c].submissions_completed = @ + 1]
    ELSE camps

\* `if campaign: campaign.<counter> = (campaign.<counter> or 0) + 1`
Count(camps, c, outcome) ==
    IF ~camps[c].exists THEN camps
    ELSE IF outcome = "completed"
    THEN [camps EXCEPT ![c].submissions_completed = @ + 1]
    ELSE [camps EXCEPT ![c].submissions_failed = @ + 1]

\* _submit_single up to the plugin call: the session, the row, the submitter,
\* the skip; the plugin call is awaited inside the `async with` block
SubmitBegin(t) ==
    /\ Runs(t, "submit")
    /\ LET id == CurrentSub(t)
           sub == submissions[id]
       IN IF ~sub.exists \/ sub.status # "pending"
          THEN /\ tasks' = [tasks EXCEPT ![t].pc = "sleep"]
               /\ UNCHANGED <<campaigns, submissions, invoked>>
          ELSE IF ~get_submitter(sub.site)
          THEN /\ submissions' = [submissions EXCEPT ![id] =
                      [@ EXCEPT !.status = "skipped", !.error_message =
                            Some(Msg(<<"No submitter for site: ", sub.site>>,
                                     23 + StrLen(sub.site)))]]
               /\ campaigns' = Count(campaigns, sub.campaign_id, "failed")
               /\ tasks' = [tasks EXCEPT ![t].pc = "sleep"]
               /\ UNCHANGED invoked
          ELSE /\ tasks' = [tasks EXCEPT ![t].pc = "inflight", ![t].session = TRUE]
               /\ invoked' = invoked \cup {id}
               /\ UNCHANGED <<campaigns, submissions>>
    /\ UNCHANGED <<nextCampaignId, running_tasks, calls, response, recording, faker, services>>

\* what asyncio.wait_for(submitter.execute(...), timeout=120) comes back with: a
\* SubmissionResult (success, reference_id, error), a TimeoutError, or an
\* exception with its text
\* variant: the result reaches the executor without its reference id
ReturnedNoReference(success, reference_id, error) ==
    [kind |-> "result", success |-> success, reference_id |-> None, error |-> error]

Returned(success, reference_id, error) ==
    [kind |-> "result", success |-> success, reference_id |-> reference_id, error |-> error]

\* variant: the TimeoutError is handled as any exception, with its empty text
TimedOutAsException ==
    [kind |-> "exception", success |-> FALSE, reference_id |-> None,
     error |-> Some(Msg(<<>>, 0))]

TimedOut == [kind |-> "timeout", success |-> FALSE, reference_id |-> None, error |-> None]

Raised(text) == [kind |-> "exception", success |-> FALSE, reference_id |-> None,
                 error |-> Some(text)]

\* texts a plugin reports or raises with: empty, short, longer than the column cut
PluginTexts == {Msg(<<>>, 0), Msg(<<"boom">>, 4), Msg(<<"trace">>, ERROR_MESSAGE_MAX + 1)}

\* every result of a plugin call
PluginResults ==
    {Returned(TRUE, r, None) : r \in {None, Some("ref")}}
    \cup {Returned(FALSE, None, e) : e \in {None} \cup {Some(m) : m \in PluginTexts}}
    \cup {TimedOut}
    \cup {Raised(m) : m \in PluginTexts}

\* one result of each kind
PluginOutcomes ==
    {Returned(TRUE, Some("ref"), None), Returned(FALSE, None, Some(Msg(<<"boom">>, 4))),
     TimedOut, Raised(Msg(<<"boom">>, 4))}

\* `result.error or "Unknown error"`: None and the empty string are falsy
ErrorOrUnknown(error) ==
    IF IsSet(error) /\ error[1].len > 0 THEN error[1] ELSE Msg(<<"Unknown error">>, 13)

\* variant: the message is stored as the plugin gave it
OutcomeUncut(sub, outcome) ==
    CASE outcome.kind = "result" /\ outcome.success ->
            [sub EXCEPT !.status = "submitted", !.submitted_at = Some("now"),
                        !.reference_id = outcome.reference_id]
      [] outcome.kind = "result" /\ ~outcome.success ->
            [sub EXCEPT !.status = "failed",
                        !.error_message = Some(ErrorOrUnknown(outcome.error))]
      [] outcome.kind = "timeout" ->
            [sub EXCEPT !.status = "failed",
                        !.error_message = Some(Msg(<<"Submission timed out after 120s">>, 31))]
      [] OTHER ->
            [sub EXCEPT !.status = "failed", !.error_message = Some(outcome.error[1])]

\* the row a plugin outcome writes
Outcome(sub, outcome) ==
    CASE outcome.kind = "result" /\ outcome.success ->
            [sub EXCEPT !.status = "submitted", !.submitted_at = Some("now"),
                        !.reference_id = outcome.reference_id]
      [] outcome.kind = "result" /\ ~outcome.success ->
            [sub EXCEPT !.status = "failed",
                        !.error_message =
                            Some(Truncate(ErrorOrUnknown(outcome.error), ERROR_MESSAGE_MAX))]
      [] outcome.kind = "timeout" ->
            [sub EXCEPT !.status = "failed",
                        !.error_message = Some(Msg(<<"Submission timed out after 120s">>, 31))]
      [] OTHER ->
            [sub EXCEPT !.status = "failed",
                        !.error_message = Some(Truncate(outcome.error[1], ERROR_MESSAGE_MAX))]

\* _submit_single after the plugin call: the row, the counter, the commit, the
\* end of the `async with` block; a row deleted meanwhile makes the commit
\* raise out of _submit_single
SubmitOutcome(t, outcome) ==
    /\ Runs(t, "inflight")
    /\ LET id == CurrentSub(t)
           sub == submissions[id]
       IN IF ~sub.exists
          THEN /\ tasks' = [tasks EXCEPT ![t].pc = "failing", ![t].session = FALSE]
               /\ UNCHANGED <<campaigns, submissions>>
          ELSE /\ submissions' = [submissions EXCEPT ![id] = Outcome(sub, outcome)]
               /\ campaigns' = Count(campaigns, sub.campaign_id,
                                     IF outcome.kind = "result" /\ outcome.success
                                     THEN "completed" ELSE "failed")
               /\ tasks' = [tasks EXCEPT ![t].pc = "sleep", ![t].session = FALSE]
    /\ UNCHANGED <<nextCampaignId, running_tasks, calls, response, recording, faker, services, invoked>>

\* variant: the loop ends one unit early
SleepEndsEarly(t) ==
    /\ Runs(t, "sleep")
    /\ tasks' = [tasks EXCEPT ![t] =
           IF tasks[t].idx + 1 < Len(tasks[t].subs)
           THEN [@ EXCEPT !.pc = "check", !.idx = @ + 1]
           ELSE [@ EXCEPT !.pc = "final"]]
    /\ UNCHANGED <<campaigns, nextCampaignId, submissions, running_tasks, calls, response, recording, faker, services, invoked>>

\* variant: a unit that failed is taken again
SleepRetriesFailed(t) ==
    /\ Runs(t, "sleep")
    /\ tasks' = [tasks EXCEPT ![t] =
           IF submissions[CurrentSub(t)].exists /\ submissions[CurrentSub(t)].status = "failed"
           THEN [@ EXCEPT !.pc = "check"]
           ELSE IF tasks[t].idx < Len(tasks[t].subs)
           THEN [@ EXCEPT !.pc = "check", !.idx = @ + 1]
           ELSE [@ EXCEPT !.pc = "final"]]
    /\ UNCHANGED <<campaigns, nextCampaignId, submissions, running_tasks, calls, response, recording, faker, services, invoked>>

\* the jittered sleep between units, then the next unit or the end of the loop
Sleep(t) ==
    /\ Runs(t, "sleep")
    /\ tasks' = [tasks EXCEPT ![t] =
           IF tasks[t].idx < Len(tasks[t].subs)
           THEN [@ EXCEPT !.pc = "check", !.idx = @ + 1]
           ELSE [@ EXCEPT !.pc = "final"]]
    /\ UNCHANGED <<campaigns, nextCampaignId, submissions, running_tasks, calls, response, recording, faker, services, invoked>>

\* variant: COMPLETED is written whatever the stored status is
FinalizeUnconditional(t) ==
    /\ Runs(t, "final")
    /\ LET c == tasks[t].cid
       IN IF ~campaigns[c].exists
          THEN /\ tasks' = [tasks EXCEPT ![t].pc = "failing"]
               /\ UNCHANGED campaigns
          ELSE /\ campaigns' = [campaigns EXCEPT ![c].status = "completed"]
               /\ tasks' = [tasks EXCEPT ![t] = Finish(t, "returned")]
    /\ UNCHANGED <<nextCampaignId, submissions, running_tasks, calls, response, recording, faker, services, invoked>>

\* after the loop: COMPLETED if the stored status is still RUNNING
Finalize(t) ==
    /\ Runs(t, "final")
    /\ LET c == tasks[t].cid
       IN IF ~campaigns[c].exists
          THEN /\ tasks' = [tasks EXCEPT ![t].pc = "failing"]
               /\ UNCHANGED campaigns
          ELSE /\ campaigns' = [campaigns EXCEPT ![c].status =
                      IF @ = "running" THEN "completed" ELSE @]
               /\ tasks' = [tasks EXCEPT ![t] = Finish(t, "returned")]
    /\ UNCHANGED <<nextCampaignId, submissions, running_tasks, calls, response, recording, faker, services, invoked>>

\* a store call of the run raises (the database is unreachable, a statement
\* fails): in a session of the loop, in _submit_single before its try, or in
\* the commit of one of its handlers; the session rolls back, the exception
\* reaches `except Exception` of the run
StoreFault(t) ==
    /\ \E pc \in {"start", "empty", "nopending", "check", "submit", "inflight", "final"} :
          Runs(t, pc)
    /\ tasks' = [tasks EXCEPT ![t].pc = "failing", ![t].session = FALSE]
    /\ UNCHANGED <<campaigns, nextCampaignId, submissions, running_tasks, calls, response,
                   recording, faker, services, invoked>>

\* the write of FAILED raises as well: the inner `except Exception` logs it
FailWriteRaises(t) ==
    /\ Runs(t, "failing")
    /\ tasks' = [tasks EXCEPT ![t] = Finish(t, "unmarked")]
    /\ UNCHANGED <<campaigns, nextCampaignId, submissions, running_tasks, calls, response,
                   recording, faker, services, invoked>>

\* variant: the handler logs the error and writes nothing
FailHandlerLogsOnly(t) ==
    /\ Runs(t, "failing")
    /\ tasks' = [tasks EXCEPT ![t] = Finish(t, "returned")]
    /\ UNCHANGED <<campaigns, nextCampaignId, submissions, running_tasks, calls, response,
                   recording, faker, services, invoked>>

\* `except Exception`: FAILED if the campaign exists
FailHandler(t) ==
    /\ Runs(t, "failing")
    /\ LET c == tasks[t].cid
       IN campaigns' = IF campaigns[c].exists
                       THEN [campaigns EXCEPT ![c].status = "failed"]
                       ELSE campaigns
    /\ tasks' = [tasks EXCEPT ![t] = Finish(t, "returned")]
    /\ UNCHANGED <<nextCampaignId, submissions, running_tasks, calls, response, recording, faker, services, invoked>>

\* variant: the cancellation is handled like any exception, FAILED is written
CancelledMarksFailed(t) ==
    /\ Active(t)
    /\ tasks[t].cancel
    /\ campaigns' = IF campaigns[tasks[t].cid].exists
                    THEN [campaigns EXCEPT ![tasks[t].cid].status = "failed"]
                    ELSE campaigns
    /\ tasks' = [tasks EXCEPT ![t] = Finish(t, "cancelled")]
    /\ UNCHANGED <<nextCampaignId, submissions, running_tasks, calls, response, recording,
                   faker, services, invoked>>

\* Task.cancel() takes effect: CancelledError is raised at the await the task is
\* suspended in, passes `except asyncio.CancelledError: raise`, and the task ends
Cancelled(t) ==
    /\ Active(t)
    /\ tasks[t].cancel
    /\ tasks' = [tasks EXCEPT ![t] = Finish(t, "cancelled")]
    /\ UNCHANGED <<campaigns, nextCampaignId, submissions, running_tasks, calls, response, recording, faker, services, invoked>>

\* variant: the callback is attached only to tasks that return
OnDoneReturnedOnly(t) ==
    /\ TaskDone(t)
    /\ tasks[t].result = "returned"
    /\ running_tasks' = [running_tasks EXCEPT ![tasks[t].cid] = 0]
    /\ tasks' = [tasks EXCEPT ![t] = FreeTask]
    /\ UNCHANGED <<campaigns, nextCampaignId, submissions, calls, response, recording, faker, services, invoked>>

\* the done callback _on_done: pop the campaign id, whatever it maps to
OnDone(t) ==
    /\ TaskDone(t)
    /\ running_tasks' = [running_tasks EXCEPT ![tasks[t].cid] = 0]
    /\ tasks' = [tasks EXCEPT ![t] = FreeTask]
    /\ UNCHANGED <<campaigns, nextCampaignId, submissions, calls, response, recording, faker, services, invoked>>

\* one step of the executor: a call from a route, or a step of a task
ExecutorStep ==
    \/ \E i \in 1..MaxPendingCalls : StartCampaign(i)
    \/ \E i \in 1..MaxPendingCalls : ResumeCampaign(i)
    \/ \E i \in 1..MaxPendingCalls : PauseCampaign(i)
    \/ \E t \in TaskIds : ExecuteSetup(t)
    \/ \E t \in TaskIds : ExecuteEmpty(t)
    \/ \E t \in TaskIds : ResumeQuery(t)
    \/ \E t \in TaskIds : ResumeNoPending(t)
    \/ \E t \in TaskIds : CheckStatus(t)
    \/ \E t \in TaskIds : SubmitBegin(t)
    \/ \E t \in TaskIds, o \in PluginOutcomes : SubmitOutcome(t, o)
    \/ \E t \in TaskIds : Sleep(t)
    \/ \E t \in TaskIds : Finalize(t)
    \/ \E t \in TaskIds : FailHandler(t)
    \/ \E t \in TaskIds : Cancelled(t)
    \/ \E t \in TaskIds : OnDone(t)

\* the three routes that drive the executor
RouteStep ==
    \/ \E c \in CampaignIds : ApiExecute(c)
    \/ \E c \in CampaignIds : ApiPause(c)
    \/ \E c \in CampaignIds : ApiResume(c)

\* the update requests the engine is exercised with: a status, or a site list
Updates ==
    {StatusOnly(s) : s \in RequestedStatuses}
    \cup {[NoUpdates EXCEPT !.target_sites = Some(sl)] : sl \in {<<>>, <<"aboutme">>}}

\* the engine with MainCampaigns campaigns: every route, update, delete and task step
Next ==
    \/ \E sl \in SiteLists, k \in TargetCounts :
          nextCampaignId <= MainCampaigns /\ CreateCampaign("n1", sl, k)
    \/ \E c \in CampaignIds, u \in Updates : ApiUpdate(c, u)
    \/ \E c \in CampaignIds : ApiDelete(c)
    \/ RouteStep
    \/ ExecutorStep

Spec == Init /\ [][Next]_vars

\* the life of tasks: create, delete, the three routes and every task step
NextLife ==
    \/ \E sl \in SiteLists, k \in TargetCounts :
          nextCampaignId <= MainCampaigns /\ CreateCampaign("n1", sl, k)
    \/ \E c \in CampaignIds : ApiDelete(c)
    \/ RouteStep
    \/ ExecutorStep

\* the event loop runs a done callback that is scheduled, and resumes a task
\* whose cancellation was requested
FairSpec ==
    /\ Init
    /\ [][NextLife]_vars
    /\ \A t \in TaskIds : WF_vars(OnDone(t)) /\ WF_vars(Cancelled(t))

\* ------------------------------------------------------- two campaigns
\* campaign 1 is a draft with two target sites (one without a submitter);
\* campaign 2 was executed and paused before its only unit was dispatched, and
\* its task is gone
InitPair ==
    /\ campaigns =
          [c \in CampaignIds |->
              IF c = 1
              THEN [NoCampaign EXCEPT !.exists = TRUE,
                                      !.target_sites = Some(<<"AboutMe", "nosuch">>),
                                      !.target_count = 1]
              ELSE IF c = 2
              THEN [NoCampaign EXCEPT !.exists = TRUE,
                                      !.status = "paused",
                                      !.target_sites = Some(<<"aboutme">>),
                                      !.target_count = 1]
              ELSE NoCampaign]
    /\ nextCampaignId = 3
    /\ submissions = WithProfiles(NewSubmissions(2, 1, <<"aboutme">>),
                                  <<Profile("Ann", "Lee")>>)
    /\ running_tasks = [c \in CampaignIds |-> 0]
    /\ tasks = [t \in TaskIds |-> FreeTask]
    /\ calls = <<>>
    /\ response = NoResponse
    /\ recording = FALSE
    /\ invoked = {}
    /\ faker = PlainFaker
    /\ lookup = Idle
    /\ accuracy = Idle
    /\ submitter = Idle

\* a step of task t: its own code, the delivery of a cancellation, its done callback
TaskStep(t) ==
    \/ ExecuteSetup(t)
    \/ ExecuteEmpty(t)
    \/ ResumeQuery(t)
    \/ ResumeNoPending(t)
    \/ CheckStatus(t)
    \/ SubmitBegin(t)
    \/ \E o \in PluginOutcomes : SubmitOutcome(t, o)
    \/ Sleep(t)
    \/ Finalize(t)
    \/ FailHandler(t)
    \/ Cancelled(t)
    \/ OnDone(t)

\* the event loop runs every task that can go on: store calls return, a plugin
\* call returns or is timed out by wait_for, a sleep ends
FairRun == Init /\ [][NextLife]_vars /\ \A t \in TaskIds : WF_vars(TaskStep(t))

\* the event loop runs every task that can go on and every route handler that
\* committed its update and has its executor call ahead
FairEngine ==
    /\ Init
    /\ [][NextLife]_vars
    /\ \A t \in TaskIds : WF_vars(TaskStep(t))
    /\ \A i \in 1..MaxPendingCalls :
          WF_vars(StartCampaign(i) \/ ResumeCampaign(i) \/ PauseCampaign(i))

\* fresh runs whose campaign is set to other statuses by PATCH requests
\* while the run goes on; no pause or resume route, no task is cancelled
NextRead ==
    \/ \E sl \in SiteLists, k \in TargetCounts :
          nextCampaignId <= MainCampaigns /\ CreateCampaign("n1", sl, k)
    \/ \E c \in CampaignIds, st \in CampaignStatus : ApiUpdate(c, StatusOnly(st))
    \/ \E c \in CampaignIds : ApiExecute(c)
    \/ \E i \in 1..MaxPendingCalls : StartCampaign(i)
    \/ \E t \in TaskIds : ExecuteSetup(t)
    \/ \E t \in TaskIds : ExecuteEmpty(t)
    \/ \E t \in TaskIds : CheckStatus(t)
    \/ \E t \in TaskIds : SubmitBegin(t)
    \/ \E t \in TaskIds, o \in PluginOutcomes : SubmitOutcome(t, o)
    \/ \E t \in TaskIds : Sleep(t)
    \/ \E t \in TaskIds : Finalize(t)
    \/ \E t \in TaskIds : OnDone(t)

\* the event loop runs every task that can go on
FairRead == Init /\ [][NextRead]_vars /\ \A t \in TaskIds : WF_vars(TaskStep(t))

\* the life of tasks over a store whose calls can raise
NextFault ==
    \/ NextLife
    \/ \E t \in TaskIds : StoreFault(t)
    \/ \E t \in TaskIds : FailWriteRaises(t)

SpecFault == Init /\ [][NextFault]_vars

\* a Submission row leaves the store while its campaign stays: the case
\* `if not sub` of _submit_single provides for
UnitVanishes(i) ==
    /\ i \in SubIds
    /\ submissions[i].exists
    /\ submissions' = [submissions EXCEPT ![i] = NoSubmission]
    /\ invoked' = invoked \ {i}
    /\ UNCHANGED <<campaigns, nextCampaignId, running_tasks, tasks, calls, response, recording, faker, services>>

\* the life of tasks over a store that can lose single rows
NextVanish ==
    \/ NextLife
    \/ \E i \in 1..MaxUnits : UnitVanishes(i)

SpecVanish == Init /\ [][NextVanish]_vars

\* site lists with an unregistered key before and after a registered one, and
\* with registered keys only
PluginSiteLists ==
    {Some(<<"nosuch", "aboutme">>), Some(<<"AboutMe", "nosuch">>), Some(<<"aboutme", "AboutMe">>)}

\* runs under the routes, with every result a plugin call can have
NextPlugin ==
    \/ \E sl \in PluginSiteLists, k \in TargetCounts :
          nextCampaignId <= MainCampaigns /\ CreateCampaign("n1", sl, k)
    \/ RouteStep
    \/ \E i \in 1..MaxPendingCalls : StartCampaign(i)
    \/ \E i \in 1..MaxPendingCalls : ResumeCampaign(i)
    \/ \E i \in 1..MaxPendingCalls : PauseCampaign(i)
    \/ \E t \in TaskIds : ExecuteSetup(t)
    \/ \E t \in TaskIds : ExecuteEmpty(t)
    \/ \E t \in TaskIds : ResumeQuery(t)
    \/ \E t \in TaskIds : ResumeNoPending(t)
    \/ \E t \in TaskIds : CheckStatus(t)
    \/ \E t \in TaskIds : SubmitBegin(t)
    \/ \E t \in TaskIds, o \in PluginResults : SubmitOutcome(t, o)
    \/ \E t \in TaskIds : Sleep(t)
    \/ \E t \in TaskIds : Finalize(t)
    \/ \E t \in TaskIds : Cancelled(t)
    \/ \E t \in TaskIds : OnDone(t)

SpecPlugin == Init /\ [][NextPlugin]_vars

\* target counts a request can carry: the schema takes any integer
SetupCounts == (0 - 1)..(MaxCount + 1)

\* fresh runs of campaigns created or updated with any count: no pause, no delete
NextSetup ==
    \/ \E sl \in SiteLists, k \in SetupCounts : CreateCampaign("n1", sl, k)
    \/ \E c \in CampaignIds, k \in SetupCounts :
          ApiUpdate(c, [NoUpdates EXCEPT !.target_count = Some(k)])
    \/ \E c \in CampaignIds : ApiExecute(c)
    \/ \E i \in 1..MaxPendingCalls : StartCampaign(i)
    \/ \E t \in TaskIds : ExecuteSetup(t)
    \/ \E t \in TaskIds : ExecuteEmpty(t)
    \/ \E t \in TaskIds : CheckStatus(t)
    \/ \E t \in TaskIds : SubmitBegin(t)
    \/ \E t \in TaskIds, o \in PluginOutcomes : SubmitOutcome(t, o)
    \/ \E t \in TaskIds : Sleep(t)
    \/ \E t \in TaskIds : Finalize(t)
    \/ \E t \in TaskIds : OnDone(t)

SpecSetup == Init /\ [][NextSetup]_vars

\* the executor under the routes alone: execute on campaign 1, pause and
\* resume on both campaigns
NextPair ==
    \/ ApiExecute(1)
    \/ \E c \in CampaignIds : ApiPause(c)
    \/ \E c \in CampaignIds : ApiResume(c)
    \/ \E i \in 1..MaxPendingCalls : StartCampaign(i)
    \/ \E i \in 1..MaxPendingCalls : ResumeCampaign(i)
    \/ \E i \in 1..MaxPendingCalls : PauseCampaign(i)
    \/ \E t \in TaskIds : ExecuteSetup(t)
    \/ \E t \in TaskIds : ResumeQuery(t)
    \/ \E t \in TaskIds : ResumeNoPending(t)
    \/ \E t \in TaskIds : CheckStatus(t)
    \/ \E t \in TaskIds : SubmitBegin(t)
    \/ \E t \in TaskIds, o \in PluginOutcomes : SubmitOutcome(t, o)
    \/ \E t \in TaskIds : Sleep(t)
    \/ \E t \in TaskIds : Finalize(t)
    \/ \E t \in TaskIds : Cancelled(t)
    \/ \E t \in TaskIds : OnDone(t)

SpecPair == InitPair /\ [][NextPair]_vars

\* ------------------------------------------- the service and the routes
\* every combination of fields an update request can carry
UpdatesAll ==
    [status : {None} \cup {Some(st) : st \in RequestedStatuses},
     name : {None, Some("n2")},
     description : {None, Some("d")},
     target_sites : {None, Some(<<>>)},
     target_count : {None} \cup {Some(k) : k \in TargetCounts}]

\* the requests that carry none or all of the four plain fields
UpdatesApi ==
    {u \in UpdatesAll :
        \/ ~IsSet(u.name) /\ ~IsSet(u.description) /\ ~IsSet(u.target_sites)
              /\ ~IsSet(u.target_count)
        \/ IsSet(u.name) /\ IsSet(u.description) /\ IsSet(u.target_sites)
              /\ IsSet(u.target_count)}

InitApi == Empty /\ recording = TRUE

\* the campaign service alone: create and update, every request
NextService ==
    \/ \E n \in Names, sl \in SiteLists, k \in TargetCounts :
          nextCampaignId <= MainCampaigns /\ CreateCampaign(n, sl, k)
    \/ \E c \in CampaignIds, u \in UpdatesAll : ApiUpdate(c, u)

SpecService == InitApi /\ [][NextService]_vars

\* the campaign service and the routes with their answers recorded, on campaigns
\* without target sites: a run ends in its first step, no unit is created
NextApi ==
    \/ \E n \in Names, k \in TargetCounts :
          nextCampaignId <= MainCampaigns /\ CreateCampaign(n, None, k)
    \/ \E c \in CampaignIds, u \in UpdatesApi : ApiUpdate(c, u)
    \/ RouteStep
    \/ \E i \in 1..MaxPendingCalls : StartCampaign(i)
    \/ \E i \in 1..MaxPendingCalls : ResumeCampaign(i)
    \/ \E i \in 1..MaxPendingCalls : PauseCampaign(i)
    \/ \E t \in TaskIds : ExecuteSetup(t)
    \/ \E t \in TaskIds : ResumeQuery(t)
    \/ \E t \in TaskIds : ResumeNoPending(t)
    \/ \E t \in TaskIds : Cancelled(t)
    \/ \E t \in TaskIds : OnDone(t)

SpecApi == InitApi /\ [][NextApi]_vars


\* ------------------------------------------------- campaigns with a target
\* a store with one draft campaign, with or without a target identity (a
\* target name of a Campaign row is null, empty or a name), and a Faker that
\* draws one of two names
InitTarget ==
    /\ \E first \in {None, Some(""), Some("Jane")}, last \in {None, Some(""), Some("Doe")},
          k \in SetupCounts,
          sl \in {<<"aboutme">>, <<"aboutme", "nosuch">>} :
          campaigns = [c \in CampaignIds |->
                          IF c = 1
                          THEN [NoCampaign EXCEPT !.exists = TRUE,
                                                  !.target_first_name = first,
                                                  !.target_last_name = last,
                                                  !.target_sites = Some(sl),
                                                  !.target_count = k]
                          ELSE NoCampaign]
    /\ nextCampaignId = 2
    /\ submissions = <<>>
    /\ running_tasks = [c \in CampaignIds |-> 0]
    /\ tasks = [t \in TaskIds |-> FreeTask]
    /\ calls = <<>>
    /\ response = NoResponse
    /\ recording = FALSE
    /\ invoked = {}
    /\ faker = FakerNames
    /\ lookup = Idle
    /\ accuracy = Idle
    /\ submitter = Idle

\* fresh runs of the campaign, and its way back to draft for another run
NextTarget ==
    \/ \E c \in CampaignIds, k \in SetupCounts :
          ApiUpdate(c, [NoUpdates EXCEPT !.target_count = Some(k)])
    \/ \E c \in CampaignIds : ApiUpdate(c, StatusOnly("draft"))
    \/ \E c \in CampaignIds : ApiExecute(c)
    \/ \E i \in 1..MaxPendingCalls : StartCampaign(i)
    \/ \E t \in TaskIds : ExecuteSetup(t)
    \/ \E t \in TaskIds : ExecuteEmpty(t)
    \/ \E t \in TaskIds : CheckStatus(t)
    \/ \E t \in TaskIds : SubmitBegin(t)
    \/ \E t \in TaskIds, o \in PluginOutcomes : SubmitOutcome(t, o)
    \/ \E t \in TaskIds : Sleep(t)
    \/ \E t \in TaskIds : Finalize(t)
    \/ \E t \in TaskIds : OnDone(t)

SpecTarget == InitTarget /\ [][NextTarget]_vars

\* --------------------------------------------------------- LookupService
\* LookupService.SCRAPERS: the registered lookup keys
SCRAPERS == {"truepeoplesearch", "fastpeoplesearch", "nuwber", "cyberbackgroundchecks",
             "usphonebook", "radaris"}

\* the order in which _get_enabled_sources appends the keys
EnabledOrder == <<"truepeoplesearch", "fastpeoplesearch", "nuwber", "cyberbackgroundchecks",
                  "usphonebook", "radaris">>

\* BaseScraper.source_name of the class registered for a key
SourceName(key) ==
    CASE key = "radaris" -> "Radaris"
      [] key = "nuwber"  -> "Nuwber"
      [] OTHER           -> key

\* ENABLE_* settings the service is started with
EnabledSets == SUBSET {"radaris", "nuwber"}

\* the `sources` argument: a list of keys (two registered ones, one in another
\* case, one of a scraper that is not in the registry)
SourceLists ==
    UNION {[1..n -> {"radaris", "nuwber", "Radaris", "thatsthem"}] : n \in 0..MaxSources}

\* a record of a scraper's result list with no field filled in
NoRecord == [name |-> None, age |-> None, location |-> None, addresses |-> <<>>,
             phone_numbers |-> <<>>, phones |-> <<>>, emails |-> <<>>]

\* ScraperResult.to_dict() of what scrape() returned
SourceResult(source, success, data, error) ==
    [source |-> source, success |-> success, data |-> data, error |-> error]

\* what one _search_source call ends with: a ScraperResult, or an exception;
\* ScraperResult.data is {} (None here) or a dict whose "results" list has records
ScrapeOutcomes ==
    {[kind |-> "result", success |-> TRUE, data |-> d, error |-> None] :
        d \in {None} \cup {Some([k \in 1..n |-> NoRecord]) : n \in 0..MaxRecords}}
    \cup {[kind |-> "result", success |-> FALSE, data |-> d,
           error |-> Some(Msg(<<"blocked">>, 7))] : d \in {None, Some(<<NoRecord, NoRecord>>)}}
    \cup {[kind |-> "exception", success |-> FALSE, data |-> None, error |-> Some(m)] :
             m \in {Msg(<<>>, 0), Msg(<<"boom">>, 4)}}

\* variant: every key of the request is searched
ResolveSourcesKeepsAll(sources, enabled) ==
    IF sources = None
    THEN SelectSeq(EnabledOrder, LAMBDA k : k \in enabled /\ k \in SCRAPERS)
    ELSE sources[1]

\* the sources to search: the enabled ones, or the requested keys that are registered
ResolveSources(sources, enabled) ==
    IF sources = None
    THEN SelectSeq(EnabledOrder, LAMBDA k : k \in enabled /\ k \in SCRAPERS)
    ELSE SelectSeq(sources[1], LAMBDA k : k \in SCRAPERS)

\* len(r.get("data", {}).get("results", []))
RecordCount(r) == IF IsSet(r.data) THEN Len(r.data[1]) ELSE 0

\* variant: the records of every source are counted
RECURSIVE TotalRecordsAllSources(_)
TotalRecordsAllSources(results) ==
    IF results = <<>> THEN 0
    ELSE RecordCount(Head(results)) + TotalRecordsAllSources(Tail(results))

\* sum(len(...) for r in successful_sources)
RECURSIVE TotalRecords(_)
TotalRecords(results) ==
    IF results = <<>> THEN 0
    ELSE (IF Head(results).success THEN RecordCount(Head(results)) ELSE 0)
         + TotalRecords(Tail(results))

\* the envelope of a lookup that searched
Envelope(sources, results) ==
    [success |-> TRUE,
     sources_searched |-> Len(sources),
     sources_successful |-> Len(SelectSeq(results, LAMBDA r : r.success)),
     total_records_found |-> TotalRecords(results),
     results |-> results]

\* the envelope of a lookup with nothing to search
NoValidSources ==
    [success |-> FALSE, error |-> "No valid sources specified", results |-> <<>>]

\* a service with its settings, before a search_person call
LookupReady(enabled) ==
    [pc |-> "ready", enabled |-> enabled, requested |-> None, sources |-> <<>>,
     results |-> <<>>, searched |-> <<>>, envelope |-> None]

\* search_person up to the loop: the sources, the early return
SearchPerson(sources) ==
    /\ lookup.pc = "ready"
    /\ LET resolved == ResolveSources(sources, lookup.enabled)
       IN lookup' = IF resolved = <<>>
                    THEN [lookup EXCEPT !.pc = "done", !.requested = sources,
                                        !.envelope = Some(NoValidSources)]
                    ELSE [lookup EXCEPT !.pc = "searching", !.requested = sources,
                                        !.sources = resolved]
    /\ UNCHANGED <<engine, accuracy, submitter>>

\* the entry of one pass of the loop: the result's dict, or the failed-source dict
SourceEntry(source_name, outcome) ==
    IF outcome.kind = "exception"
    THEN SourceResult(source_name, FALSE, None, outcome.error)
    ELSE SourceResult(SourceName(source_name), outcome.success, outcome.data, outcome.error)

\* variant: an exception of a source ends the lookup
SearchSourceAborts(outcome) ==
    /\ lookup.pc = "searching"
    /\ LET source_name == lookup.sources[Len(lookup.results) + 1]
           results == Append(lookup.results, SourceEntry(source_name, outcome))
       IN lookup' = [lookup EXCEPT
              !.searched = Append(@, source_name),
              !.results = IF outcome.kind = "exception" THEN @ ELSE results,
              !.pc = IF outcome.kind = "exception" \/ Len(results) = Len(lookup.sources)
                     THEN "done" ELSE @,
              !.envelope = IF outcome.kind = "exception" THEN Some(NoValidSources)
                           ELSE IF Len(results) = Len(lookup.sources)
                           THEN Some(Envelope(lookup.sources, results)) ELSE @]
    /\ UNCHANGED <<engine, accuracy, submitter>>

\* one pass of the loop: _search_source for the next source, its entry; after
\* the last source the envelope is compiled and returned
SearchSource(outcome) ==
    /\ lookup.pc = "searching"
    /\ LET source_name == lookup.sources[Len(lookup.results) + 1]
           results == Append(lookup.results, SourceEntry(source_name, outcome))
       IN lookup' = [lookup EXCEPT
              !.searched = Append(@, source_name),
              !.results = results,
              !.pc = IF Len(results) = Len(lookup.sources) THEN "done" ELSE @,
              !.envelope = IF Len(results) = Len(lookup.sources)
                           THEN Some(Envelope(lookup.sources, results)) ELSE @]
    /\ UNCHANGED <<engine, accuracy, submitter>>

\* the engine at rest
EngineAtRest ==
    /\ campaigns = [c \in CampaignIds |-> NoCampaign]
    /\ nextCampaignId = 1
    /\ submissions = <<>>
    /\ running_tasks = [c \in CampaignIds |-> 0]
    /\ tasks = [t \in TaskIds |-> FreeTask]
    /\ calls = <<>>
    /\ response = NoResponse
    /\ recording = FALSE
    /\ invoked = {}
    /\ faker = PlainFaker

InitLookup ==
    /\ EngineAtRest
    /\ accuracy = Idle
    /\ submitter = Idle
    /\ lookup \in {LookupReady(e) : e \in EnabledSets}

NextLookup ==
    \/ \E sl \in SourceLists : SearchPerson(Some(sl))
    \/ SearchPerson(None)
    \/ \E o \in ScrapeOutcomes : SearchSource(o)

\* one search_person call, for every request and every outcome of every source
SpecLookup == InitLookup /\ [][NextLookup]_vars

\* ------------------------------------------------------- AccuracyService
\* A text is the sequence of its characters.
\* str.lower() on the characters the model uses
LowerText(t) ==
    [k \in 1..Len(t) |->
        CASE t[k] = "A" -> "a" [] t[k] = "B" -> "b" [] t[k] = "L" -> "l" [] t[k] = "N" -> "n"
          [] t[k] = "G" -> "g" [] t[k] = "R" -> "r" [] t[k] = "Y" -> "y" [] t[k] = "X" -> "x"
          [] OTHER -> t[k]]

\* str.strip(): the text without its leading and trailing blanks
RECURSIVE Strip(_)
Strip(t) ==
    IF t = <<>> THEN t
    ELSE IF Head(t) = " " THEN Strip(Tail(t))
    ELSE IF t[Len(t)] = " " THEN Strip(SubSeq(t, 1, Len(t) - 1))
    ELSE t

\* `needle in hay` on texts
Contains(needle, hay) ==
    \E i \in 1..(Len(hay) - Len(needle) + 1) : SubSeq(hay, i, i + Len(needle) - 1) = needle

DigitChars == {"0", "1", "2", "3", "4", "5", "6", "7", "8", "9"}

\* _normalize_phone: the digits of a text
_normalize_phone(phone) == SelectSeq(phone, LAMBDA ch : ch \in DigitChars)

\* an age as a scraper or a caller hands it over: an int or a text
IntAge(n) == [kind |-> "int", value |-> n, text |-> <<>>]
StrAge(t) == [kind |-> "str", value |-> 0, text |-> t]

RECURSIVE ParseDigits(_)
ParseDigits(t) ==
    IF t = <<>> THEN 0
    ELSE 10 * ParseDigits(SubSeq(t, 1, Len(t) - 1))
         + (CHOOSE d \in 0..9 :
               <<"0", "1", "2", "3", "4", "5", "6", "7", "8", "9">>[d + 1] = t[Len(t)])

\* int(v): Some(number), or None where int() raises ValueError (a text that
\* is not a run of digits)
PyInt(v) ==
    IF v.kind = "int" THEN Some(v.value)
    ELSE IF v.text # <<>> /\ \A k \in 1..Len(v.text) : v.text[k] \in DigitChars
    THEN Some(ParseDigits(v.text))
    ELSE None

Abs(x) == IF x < 0 THEN 0 - x ELSE x

\* variant: an age counts as accurate up to a difference of 2
AgeAccurateWithin2(record_age, real_age) ==
    /\ IsSet(real_age)
    /\ IsSet(PyInt(record_age)) /\ IsSet(PyInt(real_age[1]))
    /\ Abs(PyInt(record_age)[1] - PyInt(real_age[1])[1]) <= AGE_TOLERANCE + 1

\* the age test: real_age is not None, and abs(int(record_age) - int(real_age)) <= 1
AgeAccurate(record_age, real_age) ==
    /\ IsSet(real_age)
    /\ IsSet(PyInt(record_age)) /\ IsSet(PyInt(real_age[1]))
    /\ Abs(PyInt(record_age)[1] - PyInt(real_age[1])[1]) <= AGE_TOLERANCE

\* `value or ""` of an optional text
OrEmpty(o) == IF IsSet(o) THEN o[1] ELSE <<>>

\* 1 for a condition that holds, 0 otherwise
Bit(b) == IF b THEN 1 ELSE 0

Category(total, accurate) == [total |-> total, accurate |-> accurate]

\* the breakdown before any record
NoPoints == [names |-> Category(0, 0), addresses |-> Category(0, 0),
             phones |-> Category(0, 0), ages |-> Category(0, 0), emails |-> Category(0, 0)]

AddPoints(a, b) ==
    [cat \in DOMAIN a |-> Category(a[cat].total + b[cat].total,
                                   a[cat].accurate + b[cat].accurate)]

\* the real info as the loop uses it: stripped lower-case texts, normalized sets
RealOf(real_info) ==
    [first |-> LowerText(Strip(OrEmpty(real_info.first_name))),
     last |-> LowerText(Strip(OrEmpty(real_info.last_name))),
     city |-> LowerText(Strip(OrEmpty(real_info.city))),
     state |-> LowerText(Strip(OrEmpty(real_info.state))),
     age |-> real_info.age,
     phones |-> {_normalize_phone(real_info.phones[k]) :
                    k \in {j \in 1..Len(real_info.phones) : real_info.phones[j] # <<>>}},
     emails |-> {LowerText(Strip(real_info.emails[k])) :
                    k \in {j \in 1..Len(real_info.emails) : real_info.emails[j] # <<>>}}]

\* the data points one record adds to the breakdown
RecordPoints(record, real) ==
    LET name == LowerText(Strip(OrEmpty(record.name)))
        addresses == IF OrEmpty(record.location) # <<>>
                     THEN Append(record.addresses, record.location[1])
                     ELSE record.addresses
        phones == IF record.phone_numbers # <<>> THEN record.phone_numbers ELSE record.phones
    IN [names |->
           Category(Bit(name # <<>>),
                    Bit(/\ name # <<>>
                        /\ real.first # <<>> /\ real.last # <<>>
                        /\ Contains(real.first, name) /\ Contains(real.last, name))),
        ages |->
           Category(Bit(IsSet(record.age)),
                    Bit(IsSet(record.age) /\ AgeAccurate(record.age[1], real.age))),
        addresses |->
           Category(Len(SelectSeq(addresses, LAMBDA addr : LowerText(addr) # <<>>)),
                    Len(SelectSeq(addresses, LAMBDA addr :
                        /\ LowerText(addr) # <<>>
                        /\ real.city # <<>> /\ real.state # <<>>
                        /\ Contains(real.city, LowerText(addr))
                        /\ Contains(real.state, LowerText(addr))))),
        phones |->
           Category(Len(SelectSeq(phones, LAMBDA phone : phone # <<>>)),
                    Len(SelectSeq(phones, LAMBDA phone :
                        /\ phone # <<>>
                        /\ real.phones # {}
                        /\ _normalize_phone(phone) \in real.phones))),
        emails |->
           Category(Len(SelectSeq(record.emails, LAMBDA email : email # <<>>)),
                    Len(SelectSeq(record.emails, LAMBDA email :
                        /\ email # <<>>
                        /\ real.emails # {}
                        /\ LowerText(Strip(email)) \in real.emails)))]

RECURSIVE RecordsPoints(_, _)
RecordsPoints(records, real) ==
    IF records = <<>> THEN NoPoints
    ELSE AddPoints(RecordPoints(Head(records), real), RecordsPoints(Tail(records), real))

\* data.get("results", [])
ResultsOf(source_result) == IF IsSet(source_result.data) THEN source_result.data[1] ELSE <<>>

\* variant: the records of failed sources are scored as well
ScoredSourcesAll(scraper_results) == scraper_results

\* the sources the loop does not skip: `if not source_result.get("success"): continue`
ScoredSources(scraper_results) == SelectSeq(scraper_results, LAMBDA r : r.success)

RECURSIVE SourcesPoints(_, _)
SourcesPoints(sources, real) ==
    IF sources = <<>> THEN NoPoints
    ELSE AddPoints(RecordsPoints(ResultsOf(Head(sources)), real),
                   SourcesPoints(Tail(sources), real))

\* round(num / den, 0) to the nearest integer, ties to the even one
RoundHalfEven(num, den) ==
    LET q == num \div den
        r == num % den
    IN IF 2 * r > den THEN q + 1
       ELSE IF 2 * r = den THEN q + (q % 2)
       ELSE q

\* variant: the total is the number of named records, not of data points
calculate_accuracy_per_record(scraper_results, real_info) ==
    LET breakdown == SourcesPoints(ScoredSources(scraper_results), RealOf(real_info))
        total == breakdown.names.total
        accurate == breakdown.names.accurate + breakdown.addresses.accurate
                    + breakdown.phones.accurate + breakdown.ages.accurate
                    + breakdown.emails.accurate
    IN [accuracy_score |-> IF total > 0 THEN RoundHalfEven(accurate * 1000, total) ELSE 0,
        data_points_total |-> total,
        data_points_accurate |-> accurate,
        breakdown |-> breakdown]

\* calculate_accuracy; accuracy_score is kept in tenths of a percent point
\* (round(score, 1) * 10)
calculate_accuracy(scraper_results, real_info) ==
    LET breakdown == SourcesPoints(ScoredSources(scraper_results), RealOf(real_info))
        total == breakdown.names.total + breakdown.addresses.total + breakdown.phones.total
                 + breakdown.ages.total + breakdown.emails.total
        accurate == breakdown.names.accurate + breakdown.addresses.accurate
                    + breakdown.phones.accurate + breakdown.ages.accurate
                    + breakdown.emails.accurate
    IN [accuracy_score |-> IF total > 0 THEN RoundHalfEven(accurate * 1000, total) ELSE 0,
        data_points_total |-> total,
        data_points_accurate |-> accurate,
        breakdown |-> breakdown]

\* a record with every field present and empty (a blank name)
BlankRecord ==
    [NoRecord EXCEPT !.name = Some(<<" ">>), !.location = Some(<<>>), !.addresses = <<<<>>>>,
                     !.phone_numbers = <<<<>>>>, !.emails = <<<<>>>>]

\* a record of the person looked for
FullRecord ==
    [name |-> Some(<<"A", "l", " ", "N", "g">>), age |-> Some(IntAge(35)),
     location |-> Some(<<"1", " ", "R", "y", "e", " ", "N", "Y">>),
     addresses |-> <<<<"1", " ", "R", "y", "e", " ", "N", "Y">>, <<"B", "o", "x">>>>,
     phone_numbers |-> <<<<"5", "-", "1", "2">>>>,
     phones |-> <<>>, emails |-> <<<<"A", "@", "x">>, <<"b", "@", "x">>>>]

\* a record of somebody else, with the phones under the other key
OtherRecord ==
    [name |-> Some(<<"B", "o", " ", "N", "g">>), age |-> None, location |-> None,
     addresses |-> <<>>, phone_numbers |-> <<>>,
     phones |-> <<<<"5", "1", "2">>, <<"9">>>>, emails |-> <<>>]

AccuracyRecords ==
    {NoRecord, BlankRecord, FullRecord, OtherRecord}
    \cup {[NoRecord EXCEPT !.age = Some(a)] :
             a \in {IntAge(0), IntAge(33), IntAge(34), IntAge(36), IntAge(37),
                    StrAge(<<"3", "6">>), StrAge(<<"n", "/", "a">>)}}

\* per-source result dicts as search_person returns them
AccuracyResults ==
    {SourceResult("Radaris", ok, d, None) :
        ok \in BOOLEAN,
        d \in {None} \cup {Some(rs) : rs \in UNION {[1..n -> AccuracyRecords] : n \in 0..MaxRecords}}}

\* what is known of the person: nothing, everything (age 35), a name and age 0
RealInfos ==
    {[first_name |-> None, last_name |-> None, city |-> None, state |-> None,
      age |-> None, phones |-> <<>>, emails |-> <<>>],
     [first_name |-> Some(<<" ", "a", "l">>), last_name |-> Some(<<"N", "G">>),
      city |-> Some(<<"R", "y", "e">>), state |-> Some(<<"n", "y">>),
      age |-> Some(IntAge(35)),
      phones |-> <<<<"(", "5", ")", "1", "2">>, <<>>>>,
      emails |-> <<<<"a", "@", "X", " ">>>>],
     [first_name |-> Some(<<"A", "l">>), last_name |-> Some(<<>>), city |-> None,
      state |-> None, age |-> Some(IntAge(0)), phones |-> <<>>, emails |-> <<>>]}

AccuracyReady(scraper_results, real_info) ==
    [pc |-> "ready", scraper_results |-> scraper_results, real_info |-> real_info,
     report |-> None]

\* AccuracyService.calculate_accuracy on the inputs of the call
CalculateAccuracy ==
    /\ accuracy.pc = "ready"
    /\ accuracy' = [accuracy EXCEPT
           !.pc = "done",
           !.report = Some(calculate_accuracy(accuracy.scraper_results, accuracy.real_info))]
    /\ UNCHANGED <<engine, lookup, submitter>>

InitAccuracy ==
    /\ EngineAtRest
    /\ lookup = Idle
    /\ submitter = Idle
    /\ accuracy \in {AccuracyReady(rs, real) :
                        rs \in UNION {[1..n -> AccuracyResults] : n \in 0..MaxSources},
                        real \in RealInfos}

NextAccuracy == CalculateAccuracy

\* one calculate_accuracy call, for every input
SpecAccuracy == InitAccuracy /\ [][NextAccuracy]_vars

\* --------------------------------------------------- BaseSubmitter.execute
\* a submitter object before execute(): its site name, no driver, nothing called
SubmitterReady(site_name) ==
    [pc |-> "ready", site_name |-> site_name, driver |-> FALSE, calls |-> <<>>,
     initialized |-> None, ending |-> None]

\* how `await self.initialize_driver()` ends: True, False, an exception, or a
\* cancellation of the awaiting task (the caller's wait_for ran out)
InitOutcomes ==
    {[kind |-> "result", ok |-> TRUE, error |-> None],
     [kind |-> "result", ok |-> FALSE, error |-> None],
     [kind |-> "cancelled", ok |-> FALSE, error |-> None]}
    \cup {[kind |-> "exception", ok |-> FALSE, error |-> Some(m)] : m \in PluginTexts}

\* how `await self.submit(profile)` ends: a SubmissionResult, an exception, a cancellation
SubmitOutcomes ==
    {o \in PluginResults : o.kind \in {"result", "exception"}}
    \cup {[kind |-> "cancelled", success |-> FALSE, reference_id |-> None, error |-> None]}

\* execute() ends by returning a SubmissionResult
Returns(site_name, result) ==
    Some([kind |-> "returned", site |-> site_name, success |-> result.success,
          reference_id |-> result.reference_id, error |-> result.error])

\* execute() ends by an exception that leaves it
Propagates(kind) ==
    Some([kind |-> kind, site |-> "", success |-> FALSE, reference_id |-> None,
          error |-> None])

\* execute() is called: the try block is entered
Execute ==
    /\ submitter.pc = "ready"
    /\ submitter' = [submitter EXCEPT !.pc = "init"]
    /\ UNCHANGED <<engine, lookup, accuracy>>

\* `if not await self.initialize_driver()`, with the except clause
InitializeDriver(outcome) ==
    /\ submitter.pc = "init"
    /\ submitter' = [submitter EXCEPT
           !.calls = Append(@, "initialize_driver"),
           !.initialized = Some(outcome),
           !.driver = outcome.kind = "result" /\ outcome.ok,
           !.pc = IF outcome.kind = "result" /\ outcome.ok THEN "submit" ELSE "finally",
           !.ending =
               CASE outcome.kind = "result" /\ outcome.ok -> @
                 [] outcome.kind = "result" /\ ~outcome.ok ->
                       Returns(submitter.site_name,
                               Returned(FALSE, None, Some(Msg(<<"Driver init failed">>, 18))))
                 [] outcome.kind = "exception" ->
                       Returns(submitter.site_name, Returned(FALSE, None, outcome.error))
                 [] OTHER -> Propagates("cancelled")]
    /\ UNCHANGED <<engine, lookup, accuracy>>

\* variant: an exception of submit leaves execute
SubmitPropagates(outcome) ==
    /\ submitter.pc = "submit"
    /\ submitter' = [submitter EXCEPT
           !.calls = Append(@, "submit"),
           !.pc = "finally",
           !.ending =
               CASE outcome.kind = "result" -> Returns(submitter.site_name, outcome)
                 [] outcome.kind = "exception" -> Propagates("exception")
                 [] OTHER -> Propagates("cancelled")]
    /\ UNCHANGED <<engine, lookup, accuracy>>

\* `return await self.submit(profile)`, with the except clause
Submit(outcome) ==
    /\ submitter.pc = "submit"
    /\ submitter' = [submitter EXCEPT
           !.calls = Append(@, "submit"),
           !.pc = "finally",
           !.ending =
               CASE outcome.kind = "result" -> Returns(submitter.site_name, outcome)
                 [] outcome.kind = "exception" ->
                       Returns(submitter.site_name, Returned(FALSE, None, outcome.error))
                 [] OTHER -> Propagates("cancelled")]
    /\ UNCHANGED <<engine, lookup, accuracy>>

\* finally: `await self.close_driver()`, then execute ends as decided
CloseDriver ==
    /\ submitter.pc = "finally"
    /\ submitter' = [submitter EXCEPT
           !.calls = Append(@, "close_driver"),
           !.driver = FALSE,
           !.pc = "done"]
    /\ UNCHANGED <<engine, lookup, accuracy>>

InitSubmitter ==
    /\ EngineAtRest
    /\ lookup = Idle
    /\ accuracy = Idle
    /\ submitter \in {SubmitterReady(site) : site \in SUBMITTER_REGISTRY}

NextSubmitter ==
    \/ Execute
    \/ \E o \in InitOutcomes : InitializeDriver(o)
    \/ \E o \in SubmitOutcomes : Submit(o)
    \/ CloseDriver

\* one execute() call of a submitter, for every way its awaits can end
SpecSubmitter == InitSubmitter /\ [][NextSubmitter]_vars

\* ------------------------------------------------------------------ claims
Range(seq) == {seq[k] : k \in 1..Len(seq)}

Counted(c) == campaigns[c].submissions_completed + campaigns[c].submissions_failed

TasksOf(c) == {t \in TaskIds : Active(t) /\ tasks[t].cid = c}

\* C1: for every campaign id at most one executor task (fresh run or resume
\* run) is active, whatever the interleaving of start, resume, pause and task end.
C1_SingleActiveTask == \A c \in CampaignIds : Cardinality(TasksOf(c)) <= 1

\* a resume task is active with its cancellation requested while a further
\* execute / resume call for the same campaign is on its way to the executor
C1_Witness ==
    \E c \in CampaignIds, t \in TaskIds, i \in 1..Len(calls) :
        /\ t \in TasksOf(c)
        /\ tasks[t].kind = "resume"
        /\ tasks[t].cancel
        /\ calls[i].cid = c
        /\ calls[i].op \in {"execute", "resume"}

\* C2: submissions_completed + submissions_failed never exceeds the number of
\* submission units created for the campaign (rows leave the store only with
\* their campaign, so the rows of an existing campaign are all it ever had).
C2_CountersWithinUnits ==
    \A c \in CampaignIds : campaigns[c].exists => Counted(c) <= Cardinality(UnitsOf(c))

\* every unit of a campaign with the most units the model holds has been counted,
\* by a resume run
C2_Witness ==
    \E c \in CampaignIds, t \in TaskIds :
        /\ campaigns[c].exists
        /\ Cardinality(UnitsOf(c)) = MaxUnits
        /\ Counted(c) = MaxUnits
        /\ tasks[t].cid = c
        /\ tasks[t].kind = "resume"
        /\ tasks[t].subs # <<>>


\* C3 as stated: whenever the stored status is completed or failed, the counters
\* add up to the number of units created for the campaign and none is pending.
C3_EqualityWhenFinished ==
    \A c \in CampaignIds :
        (campaigns[c].exists /\ campaigns[c].status \in {"completed", "failed"})
            => /\ Counted(c) = Cardinality(UnitsOf(c))
               /\ \A i \in UnitsOf(c) : submissions[i].status # "pending"

\* C3 amended: when a run sets completed at the end of its loop, every unit of
\* that run is terminal and the counters add up to the number of the campaign's
\* units that are not pending.
C3_CompletedByRun ==
    [][\A t \in TaskIds :
          (/\ tasks[t].pc = "final"
           /\ tasks'[t].pc = "done"
           /\ campaigns[tasks[t].cid].status = "running"
           /\ campaigns'[tasks[t].cid].status = "completed")
          => /\ \A i \in Range(tasks[t].subs) :
                    submissions'[i].exists /\ submissions'[i].status \in TerminalStatus
             /\ Counted(tasks[t].cid)' =
                    Cardinality({i \in UnitsOf(tasks[t].cid)' : submissions'[i].status # "pending"})
      ]_vars

\* a run of two units went through its loop and completed the campaign
C3_Witness ==
    \E t \in TaskIds :
        /\ tasks[t].pc = "done"
        /\ tasks[t].result = "returned"
        /\ Len(tasks[t].subs) = 2
        /\ tasks[t].idx = 2
        /\ campaigns[tasks[t].cid].exists
        /\ campaigns[tasks[t].cid].status = "completed"
        /\ \A i \in Range(tasks[t].subs) : submissions[i].status \in TerminalStatus


\* the allowed-transition table as the specification gives it
SpecTable ==
    {<<"draft", "scheduled">>, <<"draft", "running">>,
     <<"scheduled", "running">>, <<"scheduled", "paused">>, <<"scheduled", "draft">>,
     <<"running", "paused">>, <<"running", "completed">>, <<"running", "failed">>,
     <<"paused", "running">>, <<"paused", "draft">>,
     <<"completed", "draft">>, <<"failed", "draft">>}

\* C4: an update that carries a status stores it and succeeds exactly when
\* (current, requested) is in the table; any other pair, a self-transition and
\* an unknown status included, is answered with a validation error that names
\* the current and the requested status.
C4_StatusTable ==
    [][\A c \in CampaignIds, u \in UpdatesAll :
          (/\ response'.op = "update"
           /\ response'.cid = c
           /\ campaigns[c].exists
           /\ IsSet(u.status)
           /\ ApiUpdate(c, u))
          => IF <<campaigns[c].status, u.status[1]>> \in SpecTable
             THEN /\ campaigns'[c].status = u.status[1]
                  /\ response'.code = 200
             ELSE /\ campaigns'[c].status = campaigns[c].status
                  /\ response'.code = 400
                  /\ response'.detail = <<"Cannot transition", campaigns[c].status, u.status[1]>>
      ]_vars

\* a self-transition of a running campaign was rejected with both names
C4_Witness ==
    /\ response.op = "update"
    /\ response.code = 400
    /\ response.detail = <<"Cannot transition", "running", "running">>

\* C5: a rejected status transition changes nothing: the campaign row keeps its
\* status and every field sent with the request, and in the execute, pause and
\* resume routes no executor call follows (no task created or cancelled, the
\* registry unchanged).
C5_RejectionMutatesNothing ==
    [][(response' # response /\ response'.code = 400)
          => UNCHANGED <<campaigns, nextCampaignId, submissions, running_tasks, tasks,
                         calls, invoked>>
      ]_vars

\* the pause route rejected a transition while a task of the campaign was
\* registered and not cancelled
C5_Witness ==
    /\ response.op = "pause"
    /\ response.code = 400
    /\ InRegistry(response.cid)
    /\ Active(running_tasks[response.cid])
    /\ ~tasks[running_tasks[response.cid]].cancel


\* the task takes a step of its own code (not a cancellation, not the callback)
OwnStep(t) == Active(t) /\ ~tasks[t].cancel /\ tasks'[t].pc # tasks[t].pc

\* C6 as stated: a pause request that arrives while a unit's plugin call is in
\* progress does not interrupt it: the unit reaches a terminal state and is counted.
C6_InFlightRunsToOutcome ==
    [][\A t \in TaskIds :
          (/\ tasks[t].pc = "inflight"
           /\ tasks[t].cancel
           /\ submissions[CurrentSub(t)].exists
           /\ tasks'[t].pc # "inflight")
          => /\ submissions'[CurrentSub(t)].status \in TerminalStatus
             /\ Counted(tasks[t].cid)' = Counted(tasks[t].cid) + 1
      ]_vars

IsAscending(seq) == \A j, k \in 1..Len(seq) : j < k => seq[j] < seq[k]

\* C7: a resume run takes exactly the campaign's units that are pending when it
\* reads the store, in id order, and no step of it changes or dispatches any
\* other unit: not a terminal unit of the campaign, not a unit of another campaign.
C7_ResumeOnlyPending ==
    [][\A t \in TaskIds :
          (tasks[t].kind = "resume" /\ tasks'[t] # tasks[t])
          => /\ (tasks[t].pc = "start" /\ tasks'[t].pc \in {"check", "nopending"})
                  => /\ IsAscending(tasks'[t].subs)
                     /\ Range(tasks'[t].subs) =
                           {i \in SubIds : /\ submissions[i].exists
                                           /\ submissions[i].campaign_id = tasks[t].cid
                                           /\ submissions[i].status = "pending"}
             /\ \A i \in SubIds :
                   (submissions'[i] # submissions[i] \/ i \in invoked' \ invoked)
                   => /\ tasks[t].idx \in 1..Len(tasks[t].subs)
                      /\ i = tasks[t].subs[tasks[t].idx]
                      /\ submissions[i].campaign_id = tasks[t].cid
                      /\ submissions[i].status = "pending"
      ]_vars

\* a resume run of campaign 1 took one unit and brought it to a terminal state,
\* next to a unit that was terminal before and a pending unit of campaign 2
C7_Witness ==
    \E t \in TaskIds :
        /\ tasks[t].kind = "resume"
        /\ tasks[t].cid = 1
        /\ Len(tasks[t].subs) = 1
        /\ submissions[tasks[t].subs[1]].status \in TerminalStatus
        /\ \E i \in UnitsOf(1) \ Range(tasks[t].subs) : submissions[i].status \in TerminalStatus
        /\ \E j \in UnitsOf(2) : submissions[j].status = "pending"

\* C8: a resume run that finds no pending unit sets the campaign to completed;
\* it invokes no plugin and changes no unit and no counter (the run neither
\* cancelled by a pause nor robbed of its campaign by a delete in between).
C8_ResumeNothingPending ==
    [][\A t \in TaskIds :
          (tasks[t].kind = "resume" /\ OwnStep(t) /\ campaigns[tasks[t].cid].exists)
          => /\ (tasks[t].pc = "start"
                   /\ \A i \in UnitsOf(tasks[t].cid) : submissions[i].status # "pending")
                  => /\ tasks'[t].pc = "nopending"
                     /\ UNCHANGED <<campaigns, submissions, invoked>>
             /\ tasks[t].pc = "nopending"
                  => /\ tasks'[t].pc = "done"
                     /\ campaigns' = [campaigns EXCEPT ![tasks[t].cid].status = "completed"]
                     /\ UNCHANGED <<submissions, invoked>>
      ]_vars

\* a resume run found nothing pending among the units of its campaign and the
\* campaign is completed
C8_Witness ==
    \E t \in TaskIds :
        /\ tasks[t].kind = "resume"
        /\ tasks[t].pc = "done"
        /\ tasks[t].result = "returned"
        /\ tasks[t].subs = <<>>
        /\ campaigns[tasks[t].cid].exists
        /\ campaigns[tasks[t].cid].status = "completed"
        /\ UnitsOf(tasks[t].cid) # {}

\* C9: start_campaign or resume_campaign for a campaign id that has a registry
\* entry creates no task and no submission unit and leaves the entry as it is.
C9_DuplicateLaunchIgnored ==
    [][\A i \in 1..Len(calls) :
          (/\ calls' = RemoveAt(calls, i)
           /\ calls[i].op \in {"execute", "resume"}
           /\ running_tasks[calls[i].cid] # 0)
          => UNCHANGED <<tasks, running_tasks, submissions>>
      ]_vars

\* a campaign is running again while its registered task still has a
\* cancellation pending and no call is on its way: the execute / resume call
\* that followed the pause met the entry and was dropped
C9_Witness ==
    \E c \in CampaignIds :
        /\ InRegistry(c)
        /\ Active(running_tasks[c])
        /\ tasks[running_tasks[c]].cancel
        /\ campaigns[c].status = "running"
        /\ calls = <<>>

\* C10: a registered task that has ended (returned, failed, or cancelled by
\* pause) is eventually removed from the registry, and its campaign id is then
\* no longer among get_running_campaigns.
C10_EntryRemoved ==
    /\ \A t \in TaskIds :
          (Active(t) /\ tasks[t].cancel) ~> (tasks[t].pc = "free")
    /\ \A t \in TaskIds :
          TaskDone(t) ~> (tasks[t].pc = "free")
    /\ [][\A t \in TaskIds :
             (TaskDone(t) /\ tasks'[t].pc = "free")
             => tasks[t].cid \notin get_running_campaigns']_vars

\* a run created units and was stopped half way; its task is gone and the
\* registry has no entry for the campaign
C10_Witness ==
    \E c \in CampaignIds :
        /\ ~InRegistry(c)
        /\ \A t \in TaskIds : tasks[t].pc = "free"
        /\ \E i \in UnitsOf(c) : submissions[i].status = "pending"
        /\ \E i \in UnitsOf(c) : submissions[i].status \in TerminalStatus
        /\ campaigns[c].status = "paused"


\* C11: a fresh run of a campaign whose target site list is empty or missing
\* sets the status to failed and ends; it creates no unit and invokes no plugin.
C11_NoSitesFails ==
    [][\A t \in TaskIds :
          (/\ tasks[t].kind = "fresh"
           /\ tasks[t].pc = "start"
           /\ OwnStep(t)
           /\ campaigns[tasks[t].cid].exists
           /\ (~IsSet(campaigns[tasks[t].cid].target_sites)
                 \/ campaigns[tasks[t].cid].target_sites = Some(<<>>)))
          => /\ campaigns' = [campaigns EXCEPT ![tasks[t].cid].status = "failed"]
             /\ tasks'[t].pc = "done"
             /\ UNCHANGED <<submissions, invoked>>
      ]_vars

\* a fresh run of a campaign without a site list ended; the campaign is failed
\* and has no unit
C11_Witness ==
    \E t \in TaskIds :
        /\ tasks[t].kind = "fresh"
        /\ tasks[t].pc = "done"
        /\ tasks[t].result = "returned"
        /\ campaigns[tasks[t].cid].exists
        /\ ~IsSet(campaigns[tasks[t].cid].target_sites)
        /\ campaigns[tasks[t].cid].status = "failed"
        /\ UnitsOf(tasks[t].cid) = {}
        /\ invoked = {}

\* the first session of a fresh run of a campaign with a site list commits
SetupCommits(t) ==
    /\ tasks[t].kind = "fresh"
    /\ tasks[t].pc = "start"
    /\ OwnStep(t)
    /\ campaigns[tasks[t].cid].exists
    /\ TargetSitesOrEmpty(campaigns[tasks[t].cid]) # <<>>

\* the rows a step adds to the store
Added == (Len(submissions) + 1)..Len(submissions')

\* the step adds one pending row of the campaign for every pair of a profile
\* 1..n and a site of the list, n * |sites| rows in all, makes them the units
\* of the run and dispatches nothing
OneUnitPerPair(t, n) ==
    LET c == tasks[t].cid
        sites == TargetSitesOrEmpty(campaigns[c])
    IN /\ SubSeq(submissions', 1, Len(submissions)) = submissions
       /\ Cardinality(Added) = n * Len(sites)
       /\ \A p \in 1..n, s \in 1..Len(sites) :
             Cardinality({i \in Added : submissions'[i].profile = p
                                        /\ submissions'[i].site = sites[s]}) = 1
       /\ \A i \in Added : /\ submissions'[i].exists
                           /\ submissions'[i].campaign_id = c
                           /\ submissions'[i].status = "pending"
       /\ Range(tasks'[t].subs) = Added
       /\ invoked' = invoked

\* C12 as stated: a fresh run creates one pending unit per (profile, site),
\* target_count * |target_sites| units in all, before any unit is dispatched.
C12_TargetCountTimesSites ==
    [][\A t \in TaskIds :
          SetupCommits(t) => OneUnitPerPair(t, campaigns[tasks[t].cid].target_count)
      ]_vars

\* C12 amended: the run creates one pending unit per (generated profile, site);
\* the generator returns target_count profiles, at most 500 and none for a
\* count below 1; all rows are committed in the first session, and a unit is
\* dispatched only from the list of the rows committed.
C12_ProfilesTimesSites ==
    [][\A t \in TaskIds :
          /\ SetupCommits(t)
               => LET tc == campaigns[tasks[t].cid].target_count
                  IN OneUnitPerPair(t, IF tc < 0 THEN 0 ELSE IF tc > 500 THEN 500 ELSE tc)
          /\ (tasks[t].kind = "fresh" /\ invoked' # invoked /\ tasks'[t] # tasks[t])
               => /\ invoked' \ invoked \subseteq Range(tasks[t].subs)
                  /\ Range(tasks[t].subs) \subseteq SubIds
      ]_vars

\* a fresh run of a campaign with two sites committed a unit for each of them
\* and has dispatched the first
C12_Witness ==
    \E t \in TaskIds :
        /\ tasks[t].kind = "fresh"
        /\ Len(tasks[t].subs) = 2
        /\ Len(TargetSitesOrEmpty(campaigns[tasks[t].cid])) = 2
        /\ campaigns[tasks[t].cid].target_count = 1
        /\ tasks[t].subs[1] \in invoked
        /\ submissions[tasks[t].subs[2]].status = "pending"


\* something other than the run touched the campaign: it is paused, failed,
\* back to draft, or gone, or a pause has asked for the run's cancellation
ExternalChange(c) ==
    \/ ~campaigns[c].exists
    \/ campaigns[c].status \notin {"running", "completed"}
    \/ \E t \in TaskIds : tasks[t].cid = c /\ tasks[t].cancel

\* C13: a run (fresh or resume) with at least one unit, whose plugin calls
\* return or time out and whose campaign nothing else changes, eventually has
\* every unit of it terminal and the campaign completed; at the end of the loop
\* the status becomes completed only if the status read then is still running.
C13_RunCompletes ==
    /\ \A t \in TaskIds, c \in CampaignIds, S \in SUBSET (1..MaxUnits) :
          (Active(t) /\ tasks[t].cid = c /\ S # {} /\ Range(tasks[t].subs) = S)
          ~> \/ /\ campaigns[c].status = "completed"
                /\ \A i \in S : i \in SubIds /\ submissions[i].status \in TerminalStatus
             \/ ExternalChange(c)
    /\ [][\A t \in TaskIds :
             (tasks[t].pc = "final" /\ OwnStep(t) /\ campaigns[tasks[t].cid].exists)
             => campaigns'[tasks[t].cid].status =
                   IF campaigns[tasks[t].cid].status = "running"
                   THEN "completed"
                   ELSE campaigns[tasks[t].cid].status
         ]_vars

\* a resume run went through all its units and completed the campaign
C13_Witness ==
    \E t \in TaskIds :
        /\ tasks[t].kind = "resume"
        /\ tasks[t].pc = "done"
        /\ tasks[t].result = "returned"
        /\ tasks[t].subs # <<>>
        /\ tasks[t].idx = Len(tasks[t].subs)
        /\ \A i \in Range(tasks[t].subs) : submissions[i].status \in TerminalStatus
        /\ campaigns[tasks[t].cid].exists
        /\ campaigns[tasks[t].cid].status = "completed"


\* C14: an exception that reaches the run's handler stops the loop: nothing
\* more is dispatched, the campaign, if it exists, is set to failed, and the
\* task returns; if the write of failed raises too, that error is swallowed,
\* nothing is written and the task still returns.
C14_FatalErrorFails ==
    [][\A t \in TaskIds :
          /\ (OwnStep(t) /\ tasks'[t].pc = "failing")
               => UNCHANGED <<campaigns, submissions, invoked>>
          /\ (OwnStep(t) /\ tasks[t].pc = "failing")
               => /\ tasks'[t].pc = "done"
                  /\ tasks'[t].result \in {"returned", "unmarked"}
                  /\ tasks'[t].result = "returned"
                       => campaigns' =
                             IF campaigns[tasks[t].cid].exists
                             THEN [campaigns EXCEPT ![tasks[t].cid].status = "failed"]
                             ELSE campaigns
                  /\ tasks'[t].result = "unmarked" => campaigns' = campaigns
                  /\ UNCHANGED <<submissions, invoked>>
      ]_vars

\* a run of two units was stopped by an error before its second unit: the
\* campaign is failed, the second unit is still pending and was never dispatched
C14_Witness ==
    \E t \in TaskIds :
        /\ tasks[t].pc = "done"
        /\ tasks[t].result = "returned"
        /\ Len(tasks[t].subs) = 2
        /\ campaigns[tasks[t].cid].exists
        /\ campaigns[tasks[t].cid].status = "failed"
        /\ submissions[tasks[t].subs[1]].status \in TerminalStatus
        /\ submissions[tasks[t].subs[2]].status = "pending"
        /\ tasks[t].subs[2] \notin invoked


\* a unit of the run, or its campaign, is no longer in the store
LostRecord(t) ==
    \/ ~campaigns[tasks[t].cid].exists
    \/ \E i \in Range(tasks[t].subs) : ~submissions[i].exists

\* C15 as stated: once a unit of the run or its campaign has vanished, the run
\* dispatches no further unit, and when the run ends while the campaign still
\* exists (and is running, not paused meanwhile) the campaign is failed.
C15_VanishedRecordStopsRun ==
    [][\A t \in TaskIds :
          (Active(t) /\ LostRecord(t) /\ tasks'[t] # tasks[t])
          => /\ invoked' \subseteq invoked
             /\ (/\ tasks'[t].pc = "done"
                 /\ ~tasks[t].cancel
                 /\ campaigns[tasks[t].cid].exists
                 /\ campaigns[tasks[t].cid].status = "running")
                  => campaigns'[tasks[t].cid].status = "failed"
      ]_vars


\* the task is about to dispatch a unit that is in the store and pending
AtPendingUnit(t) ==
    /\ tasks[t].pc = "submit"
    /\ OwnStep(t)
    /\ submissions[CurrentSub(t)].exists
    /\ submissions[CurrentSub(t)].status = "pending"

\* the campaign's failed counter goes up by one, nothing else of any campaign changes
FailedPlusOne(c) ==
    campaigns' = IF campaigns[c].exists
                 THEN [campaigns EXCEPT ![c].submissions_failed = @ + 1]
                 ELSE campaigns

\* after a unit the loop goes to the next unit of the list, or to its end
LoopGoesOn(t) ==
    (tasks[t].pc = "sleep" /\ OwnStep(t))
    => IF tasks[t].idx < Len(tasks[t].subs)
       THEN tasks'[t].pc = "check" /\ tasks'[t].idx = tasks[t].idx + 1
       ELSE tasks'[t].pc = "final"

\* C16: a unit whose site key has no registered plugin ("nosuch" here; the
\* lookup ignores case, so "AboutMe" has one) becomes skipped with a message
\* that names the site; submissions_failed goes up by exactly 1, the completed
\* counter and the status stay, no plugin is called, and the run goes on with
\* the next unit. A unit with a registered key is dispatched and not skipped.
C16_NoPluginSkips ==
    [][\A t \in TaskIds :
          /\ AtPendingUnit(t)
               => LET id == CurrentSub(t)
                      sub == submissions[id]
                  IN IF sub.site = "nosuch"
                     THEN /\ submissions'[id].status = "skipped"
                          /\ IsSet(submissions'[id].error_message)
                          /\ sub.site \in Range(submissions'[id].error_message[1].text)
                          /\ \A j \in SubIds \ {id} : submissions'[j] = submissions[j]
                          /\ FailedPlusOne(sub.campaign_id)
                          /\ invoked' = invoked
                          /\ tasks'[t].pc = "sleep"
                     ELSE /\ submissions' = submissions
                          /\ campaigns' = campaigns
                          /\ invoked' = invoked \cup {id}
          /\ LoopGoesOn(t)
      ]_vars

\* the first unit of a running campaign was skipped for the key "nosuch" and
\* counted as failed, and the run has dispatched the second unit
C16_Witness ==
    \E t \in TaskIds :
        /\ Len(tasks[t].subs) = 2
        /\ tasks[t].pc = "inflight"
        /\ tasks[t].idx = 2
        /\ submissions[tasks[t].subs[1]].status = "skipped"
        /\ submissions[tasks[t].subs[1]].site = "nosuch"
        /\ campaigns[tasks[t].cid].status = "running"
        /\ campaigns[tasks[t].cid].submissions_failed = 1
        /\ campaigns[tasks[t].cid].submissions_completed = 0


\* the plugin call of the task's unit, a row of the store, comes back with o
PluginCallEnds(t, o) ==
    /\ tasks[t].pc = "inflight"
    /\ OwnStep(t)
    /\ submissions[CurrentSub(t)].exists
    /\ SubmitOutcome(t, o)

\* only the unit of the task changes, and of it only the status and the message
OnlyStatusAndMessage(t) ==
    LET id == CurrentSub(t)
    IN /\ \A j \in SubIds \ {id} : submissions'[j] = submissions[j]
       /\ submissions'[id] = [submissions[id] EXCEPT
                                 !.status = submissions'[id].status,
                                 !.error_message = submissions'[id].error_message]

\* C17: a plugin call that does not finish within the 120 s of wait_for leaves
\* the unit failed with the timeout message; submissions_failed goes up by
\* exactly 1, submissions_completed stays, and the run goes on with the next unit.
C17_TimeoutFailsUnit ==
    [][\A t \in TaskIds :
          /\ PluginCallEnds(t, TimedOut)
               => LET id == CurrentSub(t)
                  IN /\ submissions'[id].status = "failed"
                     /\ submissions'[id].error_message =
                           Some(Msg(<<"Submission timed out after 120s">>, 31))
                     /\ OnlyStatusAndMessage(t)
                     /\ FailedPlusOne(submissions[id].campaign_id)
                     /\ tasks'[t].pc = "sleep"
          /\ LoopGoesOn(t)
      ]_vars

\* the first unit of a run timed out and was counted as failed; the campaign
\* is still running and the run has dispatched its second unit
C17_Witness ==
    \E t \in TaskIds :
        /\ Len(tasks[t].subs) = 2
        /\ tasks[t].pc = "inflight"
        /\ tasks[t].idx = 2
        /\ submissions[tasks[t].subs[1]].status = "failed"
        /\ submissions[tasks[t].subs[1]].error_message =
              Some(Msg(<<"Submission timed out after 120s">>, 31))
        /\ campaigns[tasks[t].cid].status = "running"
        /\ campaigns[tasks[t].cid].submissions_failed = 1
        /\ campaigns[tasks[t].cid].submissions_completed = 0


\* the campaign's units in one of the given states
UnitsIn(c, states) == {i \in UnitsOf(c) : submissions[i].status \in states}

\* C18 as stated, the run as a whole: when a run (fresh or resume) has gone
\* through its loop and every unit of it was submitted by a successful plugin
\* call, submissions_completed equals the number of units of the run.
C18_AllSucceededCountsRun ==
    [][\A t \in TaskIds :
          (/\ tasks[t].pc = "final"
           /\ OwnStep(t)
           /\ campaigns[tasks[t].cid].exists
           /\ \A i \in Range(tasks[t].subs) : submissions[i].status = "submitted")
          => campaigns'[tasks[t].cid].submissions_completed = Len(tasks[t].subs)
      ]_vars

\* C18 amended: a plugin success makes the pending unit submitted, with
\* submitted_at set and the plugin's reference id (which may be none) stored;
\* submissions_completed goes up by exactly 1 and submissions_failed stays.
\* While rows leave the store only with their campaign, submissions_completed
\* is the number of the campaign's units in status submitted, over all its runs.
C18_SuccessCounts ==
    /\ [](\A c \in CampaignIds :
            campaigns[c].exists
            => campaigns[c].submissions_completed = Cardinality(UnitsIn(c, {"submitted"})))
    /\ [][\A t \in TaskIds, r \in {None, Some("ref")} :
             PluginCallEnds(t, Returned(TRUE, r, None))
             => LET id == CurrentSub(t)
                    c == submissions[id].campaign_id
                IN /\ submissions[id].status = "pending"
                   /\ submissions' = [submissions EXCEPT ![id] =
                          [@ EXCEPT !.status = "submitted", !.submitted_at = Some("now"),
                                    !.reference_id = r]]
                   /\ campaigns' = IF campaigns[c].exists
                                   THEN [campaigns EXCEPT ![c].submissions_completed = @ + 1]
                                   ELSE campaigns
                   /\ tasks'[t].pc = "sleep"
         ]_vars

\* a run of two units, both with a plugin, went to its end with two successes,
\* one with a reference id and one without; the campaign counts two
C18_Witness ==
    \E t \in TaskIds :
        /\ tasks[t].kind = "fresh"
        /\ tasks[t].pc = "done"
        /\ tasks[t].result = "returned"
        /\ Len(tasks[t].subs) = 2
        /\ LET a == submissions[tasks[t].subs[1]]
               b == submissions[tasks[t].subs[2]]
           IN /\ a.status = "submitted" /\ a.submitted_at = Some("now")
              /\ a.reference_id = Some("ref")
              /\ b.status = "submitted" /\ b.submitted_at = Some("now")
              /\ b.reference_id = None
        /\ campaigns[tasks[t].cid].submissions_completed = 2
        /\ campaigns[tasks[t].cid].submissions_failed = 0
        /\ campaigns[tasks[t].cid].status = "completed"


\* C19: a business failure reported by the plugin leaves the unit failed with
\* the plugin's message cut to at most 500 characters, or with the default
\* text when the plugin gave no message (none, or an empty one);
\* submissions_failed goes up by exactly 1 and submissions_completed stays.
C19_BusinessFailure ==
    [][\A t \in TaskIds, e \in {None} \cup {Some(m) : m \in PluginTexts} :
          PluginCallEnds(t, Returned(FALSE, None, e))
          => LET id == CurrentSub(t)
                 stored == submissions'[id].error_message
             IN /\ submissions'[id].status = "failed"
                /\ IsSet(stored)
                /\ stored[1].len <= 500
                /\ IF e = None \/ e[1].len = 0
                   THEN stored[1] = Msg(<<"Unknown error">>, 13)
                   ELSE /\ stored[1].text = e[1].text
                        /\ stored[1].len = IF e[1].len > 500 THEN 500 ELSE e[1].len
                /\ OnlyStatusAndMessage(t)
                /\ FailedPlusOne(submissions[id].campaign_id)
                /\ tasks'[t].pc = "sleep"
      ]_vars

\* two failed units of a campaign: one with the default text, one with a
\* message cut to 500 characters; both are counted as failed
C19_Witness ==
    \E c \in CampaignIds, i, j \in SubIds :
        /\ campaigns[c].exists
        /\ {i, j} \subseteq UnitsOf(c)
        /\ submissions[i].status = "failed"
        /\ submissions[i].error_message = Some(Msg(<<"Unknown error">>, 13))
        /\ submissions[j].status = "failed"
        /\ submissions[j].error_message = Some(Msg(<<"trace">>, 500))
        /\ campaigns[c].submissions_failed = 2
        /\ campaigns[c].submissions_completed = 0

\* C20: an exception out of a plugin call stays with its unit: the unit is
\* failed with the exception's text cut to 500 characters, submissions_failed
\* goes up by exactly 1 and nothing else of the campaign changes (it stays
\* running); the loop goes on through the remaining units in order, and a unit
\* is dispatched only while pending, so the failed unit is not taken again.
C20_ExceptionIsolated ==
    [][\A t \in TaskIds :
          /\ \A m \in PluginTexts :
                PluginCallEnds(t, Raised(m))
                => LET id == CurrentSub(t)
                   IN /\ submissions'[id].status = "failed"
                      /\ submissions'[id].error_message =
                            Some(Msg(m.text, IF m.len > 500 THEN 500 ELSE m.len))
                      /\ OnlyStatusAndMessage(t)
                      /\ FailedPlusOne(submissions[id].campaign_id)
                      /\ tasks'[t].pc = "sleep"
          /\ LoopGoesOn(t)
          /\ (OwnStep(t) /\ tasks[t].pc # "start")
                => /\ tasks'[t].subs = tasks[t].subs
                   /\ tasks'[t].idx \in {tasks[t].idx, tasks[t].idx + 1}
          /\ (OwnStep(t) /\ tasks'[t].pc = "inflight")
                => /\ tasks[t].pc = "submit"
                   /\ submissions[CurrentSub(t)].status = "pending"
          /\ IsAscending(tasks[t].subs)
      ]_vars

\* the plugin call of a run's first unit raised with an empty text; the unit
\* is failed and counted, the campaign is running and the second unit is dispatched
C20_Witness ==
    \E t \in TaskIds :
        /\ Len(tasks[t].subs) = 2
        /\ tasks[t].pc = "inflight"
        /\ tasks[t].idx = 2
        /\ submissions[tasks[t].subs[1]].status = "failed"
        /\ submissions[tasks[t].subs[1]].error_message = Some(Msg(<<>>, 0))
        /\ campaigns[tasks[t].cid].status = "running"
        /\ campaigns[tasks[t].cid].submissions_failed = 1


\* C21: neither counter of a campaign ever decreases: whatever step the
\* executor, the service or a route takes, a campaign that is in the store
\* before and after the step has each counter equal or larger.
C21_CountersNeverDecrease ==
    [][\A c \in CampaignIds :
          (campaigns[c].exists /\ campaigns'[c].exists)
          => /\ campaigns'[c].submissions_completed >= campaigns[c].submissions_completed
             /\ campaigns'[c].submissions_failed >= campaigns[c].submissions_failed
      ]_vars

\* a campaign whose run counted a success and a failure was put back to draft
\* by the service and has kept both counters
C21_Witness ==
    \E c \in CampaignIds :
        /\ campaigns[c].exists
        /\ campaigns[c].status = "draft"
        /\ campaigns[c].submissions_completed >= 1
        /\ campaigns[c].submissions_failed >= 1


\* the requested keys of a finished lookup (the enabled ones when none were given)
Registered(keys) == {k \in 1..Len(keys) : keys[k] \in SCRAPERS}

\* the (source, record) pairs of the successful entries of a result list
SuccessfulRecords(results) ==
    {p \in (1..Len(results)) \X (1..(MaxRecords + 1)) :
        /\ results[p[1]].success
        /\ IsSet(results[p[1]].data)
        /\ p[2] <= Len(results[p[1]].data[1])}

\* C22: a lookup whose requested keys are all registered (at least one key, or
\* no list and at least one enabled source) reports sources_searched = number
\* of requested sources, sources_successful = number of entries with success
\* true, total_records_found = number of records of the successful entries.
C22_EnvelopeCounts ==
    (/\ lookup.pc = "done"
     /\ IF lookup.requested = None
        THEN lookup.enabled # {}
        ELSE /\ lookup.requested[1] # <<>>
             /\ Registered(lookup.requested[1]) = 1..Len(lookup.requested[1]))
    => LET env == lookup.envelope[1]
       IN /\ env.success
          /\ env.sources_searched =
                IF lookup.requested = None THEN Cardinality(lookup.enabled)
                ELSE Len(lookup.requested[1])
          /\ env.sources_successful =
                Cardinality({k \in 1..Len(env.results) : env.results[k].success})
          /\ env.total_records_found = Cardinality(SuccessfulRecords(env.results))

\* two sources were requested; one succeeded with two records, the other failed
\* with two records of its own: the envelope counts 2, 1 and 2
C22_Witness ==
    /\ lookup.pc = "done"
    /\ lookup.requested = Some(<<"radaris", "nuwber">>)
    /\ lookup.results[1].success /\ RecordCount(lookup.results[1]) = 2
    /\ ~lookup.results[2].success /\ RecordCount(lookup.results[2]) = 2
    /\ lookup.envelope[1].sources_searched = 2
    /\ lookup.envelope[1].sources_successful = 1
    /\ lookup.envelope[1].total_records_found = 2

\* C23: an exception of one source does not end the lookup: the pass adds a
\* failed entry with the source's key and the exception's text and the loop
\* goes on; every pass searches the next resolved source and adds exactly one
\* entry, so a finished lookup has one entry per resolved source in order,
\* and its envelope has success true whatever the entries are.
C23_ExceptionKeepsBatch ==
    /\ [][\A o \in ScrapeOutcomes :
             SearchSource(o)
             => LET k == Len(lookup.results) + 1
                IN /\ Len(lookup'.results) = k
                   /\ SubSeq(lookup'.results, 1, k - 1) = lookup.results
                   /\ lookup'.searched = Append(lookup.searched, lookup.sources[k])
                   /\ lookup'.sources = lookup.sources
                   /\ lookup'.pc = IF k < Len(lookup.sources) THEN "searching" ELSE "done"
                   /\ o.kind = "exception"
                      => /\ lookup'.results[k].success = FALSE
                         /\ lookup'.results[k].error = o.error
                         /\ lookup'.results[k].source = lookup.sources[k]
         ]_vars
    /\ []((lookup.pc = "done" /\ lookup.sources # <<>>)
          => /\ lookup.envelope[1].success
             /\ lookup.envelope[1].results = lookup.results
             /\ Len(lookup.results) = Len(lookup.sources)
             /\ lookup.searched = lookup.sources
             /\ lookup.sources = SelectSeq(IF lookup.requested = None THEN EnabledOrder
                                           ELSE lookup.requested[1],
                                           LAMBDA key : key \in Range(lookup.sources)))

\* the first of two sources raised, the second was searched and raised too;
\* the envelope has both failed entries and success true
C23_Witness ==
    /\ lookup.pc = "done"
    /\ lookup.searched = <<"nuwber", "radaris">>
    /\ lookup.results[1] = SourceResult("nuwber", FALSE, None, Some(Msg(<<"boom">>, 4)))
    /\ lookup.results[2].source = "radaris"
    /\ ~lookup.results[2].success
    /\ lookup.envelope[1].success
    /\ lookup.envelope[1].sources_successful = 0

\* C24: with an explicit source list, keys that are not registered are
\* dropped: no plugin is invoked for them, they get no entry and are not
\* counted in sources_searched; when no key remains (or no list was given and
\* no source is enabled) the call returns at once with success false, an error
\* text and no results, and no plugin is invoked.
C24_UnknownKeysDropped ==
    /\ [](\A k \in 1..Len(lookup.searched) : lookup.searched[k] \in SCRAPERS)
    /\ []((lookup.pc = "done" /\ lookup.requested # None)
          => LET known == Cardinality(Registered(lookup.requested[1]))
             IN /\ Len(lookup.results) = known
                /\ Len(lookup.searched) = known
                /\ known > 0 => lookup.envelope[1].sources_searched = known)
    /\ [][\A r \in {None} \cup {Some(sl) : sl \in SourceLists} :
             (/\ SearchPerson(r)
              /\ IF r = None THEN lookup.enabled = {} ELSE Registered(r[1]) = {})
             => /\ lookup'.pc = "done"
                /\ lookup'.envelope[1].success = FALSE
                /\ lookup'.envelope[1].error # ""
                /\ lookup'.envelope[1].results = <<>>
                /\ lookup'.searched = <<>>
         ]_vars

\* a request with a key in the wrong case and a registered key: one source
\* was searched and counted
C24_Witness ==
    /\ lookup.pc = "done"
    /\ lookup.requested = Some(<<"Radaris", "radaris">>)
    /\ lookup.searched = <<"radaris">>
    /\ Len(lookup.results) = 1
    /\ lookup.envelope[1].sources_searched = 1


\* a record that carries no data: no name or a blank one, no age, no
\* location, and no address, phone or email other than empty texts
NoData(record) ==
    /\ \A k \in 1..Len(OrEmpty(record.name)) : record.name[1][k] = " "
    /\ record.age = None
    /\ OrEmpty(record.location) = <<>>
    /\ \A k \in 1..Len(record.addresses) : record.addresses[k] = <<>>
    /\ \A k \in 1..Len(record.phone_numbers) : record.phone_numbers[k] = <<>>
    /\ \A k \in 1..Len(record.phones) : record.phones[k] = <<>>
    /\ \A k \in 1..Len(record.emails) : record.emails[k] = <<>>

\* the (source, record) positions of the successful sources of a result list
ScoredPositions(scraper_results) ==
    {p \in (1..Len(scraper_results)) \X (1..MaxRecords) :
        /\ scraper_results[p[1]].success
        /\ p[2] <= Len(ResultsOf(scraper_results[p[1]]))}

RecordAt(scraper_results, p) == ResultsOf(scraper_results[p[1]])[p[2]]

\* C25: the scorer counts data points of successful sources only (the report
\* is that of the successful sources alone); with no source, only failed
\* sources or only records without data it reports data_points_total 0 and
\* accuracy_score 0.0; the breakdown always has its five categories, all
\* zero in these cases.
C25_OnlySuccessfulSources ==
    accuracy.pc = "done"
    => LET report == accuracy.report[1]
           given == accuracy.scraper_results
           successful == [k \in 1..Cardinality({j \in 1..Len(given) : given[j].success}) |->
                             given[CHOOSE j \in 1..Len(given) :
                                      /\ given[j].success
                                      /\ Cardinality({i \in 1..j : given[i].success}) = k]]
       IN /\ report = calculate_accuracy(successful, accuracy.real_info)
          /\ DOMAIN report.breakdown = {"names", "addresses", "phones", "ages", "emails"}
          /\ (\A p \in ScoredPositions(given) : NoData(RecordAt(given, p)))
             => /\ report.data_points_total = 0
                /\ report.accuracy_score = 0
                /\ \A cat \in DOMAIN report.breakdown :
                      report.breakdown[cat] = [total |-> 0, accurate |-> 0]

\* a failed source with a full record and a successful source whose only
\* record is blank: nothing is counted
C25_Witness ==
    /\ accuracy.pc = "done"
    /\ accuracy.scraper_results =
          <<SourceResult("Radaris", FALSE, Some(<<FullRecord>>), None),
            SourceResult("Radaris", TRUE, Some(<<BlankRecord>>), None)>>
    /\ accuracy.real_info.age = Some(IntAge(35))
    /\ accuracy.report[1].data_points_total = 0
    /\ accuracy.report[1].accuracy_score = 0

\* C26: every record (of a successful source) with a non-null age adds one
\* age data point; the point is accurate exactly when the truth has an age
\* and the record's age differs from it by -1, 0 or 1.
C26_AgeWithinOne ==
    accuracy.pc = "done"
    => LET given == accuracy.scraper_results
           truth == accuracy.real_info.age
           aged == {p \in ScoredPositions(given) : RecordAt(given, p).age # None}
           close == {p \in aged :
                       /\ truth # None
                       /\ PyInt(RecordAt(given, p).age[1]) # None
                       /\ PyInt(RecordAt(given, p).age[1])[1] - truth[1].value
                             \in {0 - 1, 0, 1}}
       IN /\ accuracy.report[1].breakdown.ages.total = Cardinality(aged)
          /\ accuracy.report[1].breakdown.ages.accurate = Cardinality(close)

\* the truth is 35; a record with age 36 is accurate, one with age 37 is not
C26_Witness ==
    /\ accuracy.pc = "done"
    /\ accuracy.real_info.age = Some(IntAge(35))
    /\ accuracy.scraper_results =
          <<SourceResult("Radaris", TRUE,
                         Some(<<[NoRecord EXCEPT !.age = Some(IntAge(36))],
                                [NoRecord EXCEPT !.age = Some(IntAge(37))]>>), None)>>
    /\ accuracy.report[1].breakdown.ages = [total |-> 2, accurate |-> 1]


\* C27: every unit of a campaign that has a target first and last name (both
\* set and not empty) stores a profile with exactly these names, whatever
\* count was requested and whatever names the generator drew.
C27_TargetNameForced ==
    \A i \in SubIds :
        LET sub == submissions[i]
            camp == campaigns[sub.campaign_id]
        IN (/\ sub.exists
            /\ camp.exists
            /\ camp.target_first_name \notin {None, Some("")}
            /\ camp.target_last_name \notin {None, Some("")})
           => /\ sub.profile_data # None
              /\ sub.profile_data[1].first_name = camp.target_first_name[1]
              /\ sub.profile_data[1].last_name = camp.target_last_name[1]

\* a campaign with the target Jane Doe and target count 2 has two units,
\* of two profiles, both named Jane Doe
C27_Witness ==
    /\ campaigns[1].exists
    /\ campaigns[1].target_first_name = Some("Jane")
    /\ campaigns[1].target_last_name = Some("Doe")
    /\ campaigns[1].target_count = 2
    /\ Len(submissions) = 2
    /\ submissions[1].profile = 1 /\ submissions[2].profile = 2
    /\ \A i \in 1..2 : submissions[i].profile_data = Some(Profile("Jane", "Doe"))


\* the calls execute() has made are these, in this order
CallOrders ==
    {<<>>, <<"initialize_driver">>, <<"initialize_driver", "submit">>,
     <<"initialize_driver", "close_driver">>,
     <<"initialize_driver", "submit", "close_driver">>}

\* C28: execute() calls initialize_driver, then submit, then close_driver;
\* when it has ended close_driver was called exactly once, as the last call,
\* on every path; submit is not called when the driver initialisation
\* failed (returned False or raised); an exception of submit is turned into a
\* returned failure result that carries the exception's text.
C28_ExecuteLifecycle ==
    /\ [](submitter.calls \in CallOrders)
    /\ [](submitter.pc = "done"
          => /\ Cardinality({k \in 1..Len(submitter.calls) :
                                submitter.calls[k] = "close_driver"}) = 1
             /\ submitter.calls[Len(submitter.calls)] = "close_driver"
             /\ submitter.ending # None)
    /\ []((submitter.initialized # None /\ ~submitter.initialized[1].ok)
          => /\ "submit" \notin Range(submitter.calls)
             /\ submitter.pc \in {"finally", "done"}
             /\ submitter.initialized[1].kind # "cancelled"
                => /\ submitter.ending[1].kind = "returned"
                   /\ submitter.ending[1].success = FALSE)
    /\ [][\A m \in PluginTexts :
             Submit(Raised(m))
             => /\ submitter'.ending[1].kind = "returned"
                /\ submitter'.ending[1].success = FALSE
                /\ submitter'.ending[1].error = Some(m)
                /\ submitter'.ending[1].site = submitter.site_name
                /\ submitter'.pc = "finally"
         ]_vars
    /\ [][(submitter.pc = "finally" /\ submitter' # submitter)
          => /\ submitter'.pc = "done"
             /\ submitter'.ending = submitter.ending
             /\ submitter'.calls = Append(submitter.calls, "close_driver")
         ]_vars

\* submit raised "boom": execute has closed the driver and returned a failure
\* result with that text
C28_Witness ==
    /\ submitter.pc = "done"
    /\ submitter.calls = <<"initialize_driver", "submit", "close_driver">>
    /\ submitter.ending[1].kind = "returned"
    /\ submitter.ending[1].success = FALSE
    /\ submitter.ending[1].error = Some(Msg(<<"boom">>, 4))
    /\ ~submitter.driver


\* C29: a run comes to a unit only through the status re-read, with the
\* stored status running; when the re-read finds the campaign with any other
\* status the task returns: it dispatches neither this unit nor a later one
\* and writes nothing, so the campaign's status stays as it was read.
C29_StatusRereadStopsRun ==
    [][\A t \in TaskIds :
          /\ (OwnStep(t) /\ tasks'[t].pc = "submit")
                => /\ tasks[t].pc = "check"
                   /\ campaigns[tasks[t].cid].exists
                   /\ campaigns[tasks[t].cid].status = "running"
          /\ (/\ OwnStep(t)
              /\ tasks[t].pc = "check"
              /\ campaigns[tasks[t].cid].exists
              /\ campaigns[tasks[t].cid].status # "running")
                => /\ tasks'[t].pc = "done"
                   /\ tasks'[t].result = "returned"
                   /\ UNCHANGED <<campaigns, submissions, invoked>>
      ]_vars

\* a run returned at the re-read before its second unit: the campaign is
\* paused, the first unit is terminal, the second is pending and was never
\* dispatched
C29_Witness ==
    \E t \in TaskIds :
        /\ tasks[t].pc = "done"
        /\ tasks[t].result = "returned"
        /\ ~tasks[t].cancel
        /\ Len(tasks[t].subs) = 2
        /\ tasks[t].idx = 2
        /\ campaigns[tasks[t].cid].exists
        /\ campaigns[tasks[t].cid].status = "paused"
        /\ submissions[tasks[t].subs[1]].status \in TerminalStatus
        /\ submissions[tasks[t].subs[2]].status = "pending"
        /\ tasks[t].subs[2] \notin invoked


\* C30: a unit's terminal status and its counter increment are one write: in
\* every state of the store, a campaign that exists (created with both
\* counters zero) has submissions_completed = number of its units in status
\* submitted and submissions_failed = number of its units in status failed
\* or skipped.
C30_CountersMatchUnits ==
    \A c \in CampaignIds :
        campaigns[c].exists
        => /\ campaigns[c].submissions_completed =
                 Cardinality({i \in UnitsOf(c) : submissions[i].status = "submitted"})
           /\ campaigns[c].submissions_failed =
                 Cardinality({i \in UnitsOf(c) : submissions[i].status \in {"failed", "skipped"}})

\* a campaign with a submitted unit, a skipped unit and a unit still to
\* come, counted 1 and 1
C30_Witness ==
    \E c \in CampaignIds :
        /\ campaigns[c].exists
        /\ campaigns[c].submissions_completed = 1
        /\ campaigns[c].submissions_failed = 1
        /\ \E i, j, k \in UnitsOf(c) :
              /\ submissions[i].status = "submitted"
              /\ submissions[j].status = "skipped"
              /\ submissions[k].status = "pending"


\* a unit the task has dispatched and not yet left: _submit_single is running
Dispatched(t) == tasks[t].pc \in {"submit", "inflight"}

\* C31: within one run units are dispatched one at a time in id order: while
\* a unit is dispatched every unit of the run with a smaller id is terminal
\* (or gone with its campaign), no unit of the run with a larger id has been
\* given to a plugin by this run before it, and no campaign has two units in
\* flight.
C31_OneAtATimeInOrder ==
    /\ \A t \in TaskIds :
          Dispatched(t)
          => \A j \in 1..Len(tasks[t].subs) :
                /\ j < tasks[t].idx => tasks[t].subs[j] < CurrentSub(t)
                /\ (tasks[t].subs[j] < CurrentSub(t) /\ submissions[tasks[t].subs[j]].exists)
                      => submissions[tasks[t].subs[j]].status \in TerminalStatus
    /\ \A c \in CampaignIds :
          Cardinality({t \in TaskIds : tasks[t].pc = "inflight" /\ tasks[t].cid = c}) <= 1

\* a resume run has its second unit in flight; its first unit is terminal
C31_Witness ==
    \E t \in TaskIds :
        /\ tasks[t].kind = "resume"
        /\ tasks[t].pc = "inflight"
        /\ tasks[t].idx = 2
        /\ submissions[tasks[t].subs[1]].status \in TerminalStatus
        /\ submissions[CurrentSub(t)].status = "pending"


\* the task is suspended in the inter-unit sleep or in the bounded wait on
\* the plugin call
AtSuspensionPoint(t) == tasks[t].pc \in {"sleep", "inflight"}

\* C32: no store session is open while a task is at a suspension point,
\* neither during the inter-unit sleep nor during the wait on the plugin call.
C32_NoSessionAtSuspension ==
    \A t \in TaskIds : AtSuspensionPoint(t) => ~tasks[t].session


\* a step in which a plugin call is begun for unit i
PluginInvoked(i) ==
    \E t \in TaskIds :
        /\ tasks[t].pc = "submit"
        /\ tasks'[t].pc = "inflight"
        /\ CurrentSub(t) = i

\* C33: terminal unit states are absorbing for the engine: in no step does a
\* unit that is submitted, confirmed, failed or skipped change its status,
\* reference id or error message while its row exists (rows leave the store
\* only with their campaign), and no plugin call is begun for it.
C33_TerminalAbsorbing ==
    [][\A i \in SubIds :
          (submissions[i].exists /\ submissions[i].status \in TerminalStatus)
          => /\ submissions'[i].exists
                => /\ submissions'[i].status = submissions[i].status
                   /\ submissions'[i].reference_id = submissions[i].reference_id
                   /\ submissions'[i].error_message = submissions[i].error_message
             /\ ~PluginInvoked(i)
      ]_vars

\* a resume run has a unit in flight while an earlier unit of the campaign,
\* which the run did not pick up, is terminal
C33_Witness ==
    \E t \in TaskIds, i \in SubIds :
        /\ tasks[t].kind = "resume"
        /\ tasks[t].pc = "inflight"
        /\ submissions[i].exists
        /\ submissions[i].campaign_id = tasks[t].cid
        /\ submissions[i].status \in TerminalStatus
        /\ i \notin Range(tasks[t].subs)


\* C34: every change of a campaign's stored status, written by the campaign
\* service or by an executor task, is a transition of the allowed table.
C34_EveryChangeAllowed ==
    [][\A c \in CampaignIds :
          (campaigns[c].exists /\ campaigns'[c].exists
              /\ campaigns'[c].status # campaigns[c].status)
          => campaigns'[c].status \in ALLOWED_TRANSITIONS(campaigns[c].status)
      ]_vars


\* the execute or resume route has set campaign c running and has its
\* executor call ahead
AcceptedRun(c) ==
    /\ Exists(c)
    /\ campaigns[c].status = "running"
    /\ \E i \in 1..Len(calls) : calls[i].cid = c /\ calls[i].op \in {"execute", "resume"}

\* C35: an execute or resume request the API accepted leads to a task that
\* processes the campaign: when tasks and handlers are run on, the campaign
\* eventually leaves running (by the run's completion or failure, or by a
\* later pause, update or delete), whenever the request comes relative to a
\* preceding pause and the removal of the cancelled task from the registry.
C35_AcceptedRunIsProcessed ==
    \A c \in CampaignIds :
        AcceptedRun(c) ~> (~Exists(c) \/ campaigns[c].status # "running")


\* C36: a task that pause_campaign cancelled writes no campaign status: the
\* only step it still takes ends it as cancelled, and neither failed nor
\* completed nor anything else is written to the campaigns, so the status the
\* caller stored stays as it is.
C36_CancelledWritesNoStatus ==
    [][\A t \in TaskIds :
          (Active(t) /\ tasks[t].cancel /\ tasks'[t] # tasks[t])
          => /\ tasks'[t].pc = "done"
             /\ tasks'[t].result = "cancelled"
             /\ UNCHANGED campaigns
      ]_vars

\* a run was cancelled half way through its units: the task ended as
\* cancelled and the campaign still has the status the pause route wrote
C36_Witness ==
    \E t \in TaskIds :
        /\ tasks[t].pc = "done"
        /\ tasks[t].result = "cancelled"
        /\ tasks[t].idx = 2
        /\ campaigns[tasks[t].cid].exists
        /\ campaigns[tasks[t].cid].status = "paused"
        /\ submissions[tasks[t].subs[1]].status \in TerminalStatus


\* C37: over any sequence of start, pause and resume the plugin is invoked at
\* most once for each submission unit: no plugin call is begun for a unit
\* for which one was begun before.
C37_PluginAtMostOnce ==
    [][\A i \in SubIds : PluginInvoked(i) => i \notin invoked]_vars


\* the task is in the loop over its units
InLoop(t) == tasks[t].pc \in {"check", "submit", "inflight", "sleep"}

\* units of the run whose status re-read has passed
Passed(t) == IF tasks[t].pc = "check" THEN tasks[t].idx - 1 ELSE tasks[t].idx

\* task t is in the loop of the run whose first unit is f
InRun(t, f) == InLoop(t) /\ tasks[t].subs[1] = f

\* the run with first unit f has passed p re-reads and finds its campaign
\* with a stored status other than running
StatusChanged(t, f, p) ==
    /\ InRun(t, f)
    /\ Passed(t) = p
    /\ campaigns[tasks[t].cid].exists
    /\ campaigns[tasks[t].cid].status # "running"

\* C38 as stated: once the stored status of a running campaign is other than
\* running, at most one further unit of the active run is dispatched.
C38_AtMostOneFurther ==
    \A t \in TaskIds, f \in 1..MaxUnits, p \in 0..MaxUnits :
        [](StatusChanged(t, f, p) => [](InRun(t, f) => Passed(t) <= p + 1))

\* C38, amended: no unit passes the re-read while the stored status is other
\* than running, so after a change away from running the run dispatches at
\* most the unit whose re-read had passed, unless the status is running again
\* before the run has gone further than that unit.
C38_OneFurtherUnlessRunningAgain ==
    /\ \A t \in TaskIds, f \in 1..MaxUnits, p \in 0..MaxUnits :
          [](StatusChanged(t, f, p)
                => \/ [](InRun(t, f) => Passed(t) <= p + 1)
                   \/ <>(/\ InRun(t, f)
                         /\ Passed(t) <= p + 1
                         /\ campaigns[tasks[t].cid].exists
                         /\ campaigns[tasks[t].cid].status = "running"))
    /\ [][\A t \in TaskIds :
             (InLoop(t) /\ InLoop(t)' /\ Passed(t)' > Passed(t))
             => /\ campaigns[tasks[t].cid].exists
                /\ campaigns[tasks[t].cid].status = "running"
         ]_vars

\* the first unit of a run is in flight, its re-read had passed, and the
\* campaign has been paused by an update since; no cancellation was asked for
C38_Witness ==
    \E t \in TaskIds :
        /\ tasks[t].pc = "inflight"
        /\ ~tasks[t].cancel
        /\ tasks[t].idx = 1
        /\ Len(tasks[t].subs) = 2
        /\ campaigns[tasks[t].cid].exists
        /\ campaigns[tasks[t].cid].status = "paused"


\* C39: a task's done callback removes only that task's own registry entry:
\* when the callback of a finished task runs, the entry of its campaign id is
\* its own, and as long as a task is active its entry is neither removed nor
\* replaced, whatever other tasks of the same campaign id end meanwhile.
C39_CallbackRemovesOwnEntry ==
    [][/\ \A t \in TaskIds :
             (TaskDone(t) /\ tasks'[t].pc = "free")
             => running_tasks[tasks[t].cid] = t
       /\ \A t \in TaskIds :
             (Active(t) /\ running_tasks[tasks[t].cid] = t)
             => running_tasks'[tasks[t].cid] = t
      ]_vars

\* a later task of a campaign is active and registered after an earlier
\* task of the same campaign, which made a unit terminal, has ended and its
\* callback has run
C39_Witness ==
    \E t \in TaskIds, i \in SubIds :
        /\ Active(t)
        /\ tasks[t].kind = "resume"
        /\ running_tasks[tasks[t].cid] = t
        /\ \A u \in TaskIds \ {t} : tasks[u].pc = "free"
        /\ submissions[i].exists
        /\ submissions[i].campaign_id = tasks[t].cid
        /\ i \in invoked
        /\ i \notin Range(tasks[t].subs)


\* the five categories of the breakdown
Categories == {"names", "addresses", "phones", "ages", "emails"}

\* the sum of one field over the five categories
SumOver(breakdown, field) ==
    breakdown.names[field] + breakdown.addresses[field] + breakdown.phones[field]
    + breakdown.ages[field] + breakdown.emails[field]

\* C40: for every input of the scorer each category of the breakdown has
\* 0 <= accurate <= total, data_points_total and data_points_accurate are the
\* sums of the five categories' total and accurate, data_points_accurate <=
\* data_points_total, and the score lies between 0 and 100 (0 and 1000 tenths).
C40_BreakdownSums ==
    accuracy.pc = "done"
    => LET report == accuracy.report[1]
       IN /\ DOMAIN report.breakdown = Categories
          /\ \A cat \in Categories :
                /\ 0 <= report.breakdown[cat].accurate
                /\ report.breakdown[cat].accurate <= report.breakdown[cat].total
          /\ report.data_points_total = SumOver(report.breakdown, "total")
          /\ report.data_points_accurate = SumOver(report.breakdown, "accurate")
          /\ report.data_points_accurate <= report.data_points_total
          /\ 0 <= report.accuracy_score
          /\ report.accuracy_score <= 1000

\* a report over two sources with data points in every category, some of
\* them accurate and some not, and a score strictly between 0 and 100
C40_Witness ==
    /\ accuracy.pc = "done"
    /\ Len(accuracy.scraper_results) = 2
    /\ \A cat \in Categories : accuracy.report[1].breakdown[cat].total > 0
    /\ \E cat \in Categories :
          /\ accuracy.report[1].breakdown[cat].accurate > 0
          /\ accuracy.report[1].breakdown[cat].accurate < accuracy.report[1].breakdown[cat].total
    /\ accuracy.report[1].accuracy_score > 0
    /\ accuracy.report[1].accuracy_score < 1000

====
